---------------------------- MODULE Spec2Model ----------------------------
(***************************************************************************)
(* Asset depreciation schedule engine (erpnext, doctype Asset              *)
(* Depreciation Schedule): the schedule generator, the accumulated         *)
(* depreciation reconciler and the schedule lifecycle (draft, submit,      *)
(* cancel, regeneration).                                                  *)
(*                                                                         *)
(* Money is an integer number of fine units, Unit fine units making one    *)
(* step of the currency precision; the code's float divisions are floor    *)
(* divisions on fine units.  A date is the number of days since            *)
(* 1970-01-01; NoDate stands for Python's None.                            *)
(***************************************************************************)
EXTENDS Integers, Sequences, FiniteSets, TLC

\* ------------------------------------------------------------- bounds
\* names of stored schedules are 1..MaxDocs
MaxDocs == 4
\* journal entries are named 1..MaxJE
MaxJE == 1

\* ------------------------------------------------- numbers and dates
\* fine units in one step of the field precision
Unit == 10 * 10

NoDate == 0 - 1

Min(a, b) == IF a < b THEN a ELSE b

\* frappe.utils.flt(x, precision): round to the field precision, halves up
Flt(x) == ((x + (Unit \div 2)) \div Unit) * Unit

\* a float division of fine units
Div(a, b) == a \div b

IsLeap(y) == (y % 4 = 0 /\ y % 100 # 0) \/ y % 400 = 0

DaysInMonth(y, m) ==
    IF m = 2 THEN (IF IsLeap(y) THEN 29 ELSE 28)
    ELSE IF m \in {4, 6, 9, 11} THEN 30 ELSE 31

\* the value of F at v, v being computed once
With(v, F(_)) == CHOOSE r \in {F(x) : x \in {v}} : TRUE

\* the day number of the civil date y-m-d
MkDate(y, m, d) ==
    With(IF m <= 2 THEN y - 1 ELSE y, LAMBDA yy :
    With(yy - (yy \div 400) * 400, LAMBDA yoe :
        LET mp  == IF m > 2 THEN m - 3 ELSE m + 9
            doy == (153 * mp + 2) \div 5 + d - 1
            doe == yoe * 365 + yoe \div 4 - yoe \div 100 + doy
        IN  (yy \div 400) * 146097 + doe - 719468))

\* the civil date <<y, m, d>> of a day number
Civil(z) ==
    With((z + 719468) \div 146097, LAMBDA era :
    With(z + 719468 - era * 146097, LAMBDA doe :
    With((doe - doe \div 1460 + doe \div 36524 - doe \div 146096) \div 365, LAMBDA yoe :
    With(doe - (365 * yoe + yoe \div 4 - yoe \div 100), LAMBDA doy :
    With((5 * doy + 2) \div 153, LAMBDA mp :
    With(IF mp < 10 THEN mp + 3 ELSE mp - 9, LAMBDA m :
        <<yoe + era * 400 + (IF m <= 2 THEN 1 ELSE 0),
          m,
          doy - (153 * mp + 2) \div 5 + 1>>))))))

add_days(date, n) == date + n

date_diff(a, b) == a - b

\* dateutil's relativedelta(months=n): the day is cut to the month's length
add_months(date, n) ==
    With(Civil(date), LAMBDA c :
    With(c[1] * 12 + (c[2] - 1) + n, LAMBDA t :
    With(t \div 12, LAMBDA y :
    With((t % 12) + 1, LAMBDA m :
        MkDate(y, m, Min(c[3], DaysInMonth(y, m)))))))

get_first_day(date) ==
    With(Civil(date), LAMBDA c : MkDate(c[1], c[2], 1))

get_last_day(date) ==
    With(Civil(date), LAMBDA c : MkDate(c[1], c[2], DaysInMonth(c[1], c[2])))

is_last_day_of_the_month(date) == get_last_day(date) = date

month_diff(ed, st) ==
    With(Civil(ed), LAMBDA e :
    With(Civil(st), LAMBDA s :
        (e[1] - s[1]) * 12 + e[2] - s[2] + 1))

is_first_day_of_the_month(date) == get_first_day(date) = date


\* ------------------------------------------------ results and errors
\* a computed value, or an exception raised while computing it
Val(v) == [ok |-> TRUE, v |-> v]
Raise == [ok |-> FALSE, v |-> 0]

\* a float division: ZeroDivisionError on a zero divisor
Quot(a, b) == With(b, LAMBDA d : IF d = 0 THEN Raise ELSE Val(Div(a, d)))

\* ------------------------------------------------ pro-rata calculator
get_total_days(date, frequency) ==
    With(add_months(date, frequency * (0 - 1)), LAMBDA period_start_date :
        IF is_last_day_of_the_month(date)
        THEN date_diff(date, get_last_day(period_start_date))
        ELSE date_diff(date, period_start_date))

\* a pro-rata calculator that returns the amount of the whole period
get_pro_rata_amt_of_whole_period(row, depreciation_amount, from_date, to_date, has_wdv_or_dd_non_yearly_pro_rata) ==
    [ok |-> TRUE, v |-> depreciation_amount,
     days |-> date_diff(to_date, from_date), months |-> month_diff(to_date, from_date)]

\* a pro-rata calculator that counts one day less
get_pro_rata_amt_of_one_day_less(row, depreciation_amount, from_date, to_date, has_wdv_or_dd_non_yearly_pro_rata) ==
    With(Quot(depreciation_amount * (date_diff(to_date, from_date) - 1),
              get_total_days(to_date, IF has_wdv_or_dd_non_yearly_pro_rata
                                      THEN 12 ELSE row.frequency_of_depreciation)), LAMBDA q :
        [ok |-> q.ok, v |-> q.v,
         days |-> date_diff(to_date, from_date), months |-> month_diff(to_date, from_date)])

\* [ok, v: the amount, days, months]
get_pro_rata_amt(row, depreciation_amount, from_date, to_date, has_wdv_or_dd_non_yearly_pro_rata) ==
    LET days == date_diff(to_date, from_date)
        months == month_diff(to_date, from_date)
        total_days == get_total_days(to_date,
                          IF has_wdv_or_dd_non_yearly_pro_rata
                          THEN 12 ELSE row.frequency_of_depreciation)
    IN  With(Quot(depreciation_amount * days, total_days), LAMBDA q :
            [ok |-> q.ok, v |-> q.v, days |-> days, months |-> months])

get_modified_available_for_use_date(asset_doc, row, wdv_or_dd_non_yearly) ==
    add_months(asset_doc.available_for_use_date,
               asset_doc.number_of_depreciations_booked
                 * (IF wdv_or_dd_non_yearly THEN 12 ELSE row.frequency_of_depreciation))

check_is_pro_rata(asset_doc, row, wdv_or_dd_non_yearly) ==
    LET from_date == get_modified_available_for_use_date(asset_doc, row, wdv_or_dd_non_yearly)
        days == date_diff(row.depreciation_start_date, from_date) + 1
        total_days == get_total_days(row.depreciation_start_date,
                          IF wdv_or_dd_non_yearly
                          THEN 12 ELSE row.frequency_of_depreciation)
    IN  days < total_days

\* ------------------------------------------- period amount calculator
IsStraightLineOrManual(method) == method \in {"Straight Line", "Manual"}

IsWdvOrDd(method) == method \in {"Written Down Value", "Double Declining Balance"}

\* the number of days of the period with index schedule_idx (daily pro-rata)
DaysOfPeriod(row, schedule_idx) ==
    LET to_date == get_last_day(add_months(row.depreciation_start_date,
                        schedule_idx * row.frequency_of_depreciation))
        from_date == add_days(get_last_day(add_months(row.depreciation_start_date,
                        (schedule_idx - 1) * row.frequency_of_depreciation)), 1)
    IN  date_diff(to_date, from_date) + 1

\* a straight-line amount that spreads the value over one period too many
get_straight_line_or_manual_depr_amount_over_one_more_period(asset, row, schedule_idx, number_of_pending_depreciations) ==
    Quot(row.value_after_depreciation - row.expected_value_after_useful_life,
         (row.total_number_of_depreciations - asset.number_of_depreciations_booked) + 1)

\* daily_depr_amount * days is computed as (value * days) / total days
get_straight_line_or_manual_depr_amount(asset, row, schedule_idx, number_of_pending_depreciations) ==
    LET remaining == row.value_after_depreciation - row.expected_value_after_useful_life
        last_date == get_last_day(add_months(row.depreciation_start_date,
                        (row.total_number_of_depreciations
                           - asset.number_of_depreciations_booked - 1)
                        * row.frequency_of_depreciation))
    IN
    IF "increase_in_asset_life" \in asset.flags
    THEN IF asset.to_date = NoDate \/ asset.available_for_use_date = NoDate
         THEN Raise
         ELSE Quot(remaining * 365, date_diff(asset.to_date, asset.available_for_use_date))
    ELSE IF "increase_in_asset_value_due_to_repair" \in asset.flags
    THEN Quot(remaining, row.total_number_of_depreciations)
    ELSE IF "decrease_in_asset_value_due_to_value_adjustment" \in asset.flags
    THEN IF row.daily_prorata_based
         THEN Quot(remaining * DaysOfPeriod(row, schedule_idx),
                   date_diff(last_date,
                      add_days(get_last_day(add_months(row.depreciation_start_date,
                          (row.total_number_of_depreciations
                             - asset.number_of_depreciations_booked
                             - number_of_pending_depreciations - 1)
                          * row.frequency_of_depreciation)), 1)))
         ELSE Quot(remaining, number_of_pending_depreciations)
    ELSE LET first_time == asset.gross_purchase_amount
                             - asset.opening_accumulated_depreciation
                             - row.expected_value_after_useful_life
         IN  IF row.daily_prorata_based
             THEN Quot(first_time * DaysOfPeriod(row, schedule_idx),
                       date_diff(last_date,
                          add_days(get_last_day(add_months(row.depreciation_start_date,
                              (0 - 1) * row.frequency_of_depreciation)), 1)))
             ELSE Quot(first_time,
                       row.total_number_of_depreciations
                         - asset.number_of_depreciations_booked)

\* the declining-balance amount were it recomputed from the remaining value
\* in every period
get_wdv_or_dd_depr_amount_recomputed_every_period(depreciable_value, rate_of_depreciation, frequency_of_depreciation, schedule_idx, prev_depreciation_amount, has_wdv_or_dd_non_yearly_pro_rata) ==
    IF frequency_of_depreciation = 12 \/ (has_wdv_or_dd_non_yearly_pro_rata /\ schedule_idx = 0)
    THEN Val(Div(depreciable_value * rate_of_depreciation, 100))
    ELSE Val(Div(depreciable_value * frequency_of_depreciation
                   * rate_of_depreciation, 1200))

\* a declining-balance amount taken at twice the rate
get_wdv_or_dd_depr_amount_at_twice_the_rate(depreciable_value, rate_of_depreciation, frequency_of_depreciation, schedule_idx, prev_depreciation_amount, has_wdv_or_dd_non_yearly_pro_rata) ==
    Val(Div(depreciable_value * rate_of_depreciation * 2, 100))

\* frequencies are divisors of 12, so that 12 / frequency is an integer
get_wdv_or_dd_depr_amount(depreciable_value, rate_of_depreciation, frequency_of_depreciation, schedule_idx, prev_depreciation_amount, has_wdv_or_dd_non_yearly_pro_rata) ==
    IF frequency_of_depreciation = 12
    THEN Val(Div(depreciable_value * rate_of_depreciation, 100))
    ELSE IF has_wdv_or_dd_non_yearly_pro_rata
    THEN IF schedule_idx = 0
         THEN Val(Div(depreciable_value * rate_of_depreciation, 100))
         ELSE IF schedule_idx % (12 \div frequency_of_depreciation) = 1
         THEN Val(Div(depreciable_value * frequency_of_depreciation
                        * rate_of_depreciation, 1200))
         ELSE Val(prev_depreciation_amount)
    ELSE IF schedule_idx % (12 \div frequency_of_depreciation) = 0
         THEN Val(Div(depreciable_value * frequency_of_depreciation
                        * rate_of_depreciation, 1200))
         ELSE Val(prev_depreciation_amount)

get_updated_rate_of_depreciation_for_wdv_and_dd(asset, depreciable_value, fb_row) ==
    fb_row.rate_of_depreciation

get_depreciation_amount(asset, depreciable_value, fb_row, schedule_idx, prev_depreciation_amount, has_wdv_or_dd_non_yearly_pro_rata, number_of_pending_depreciations) ==
    IF IsStraightLineOrManual(fb_row.depreciation_method)
    THEN get_straight_line_or_manual_depr_amount(asset, fb_row, schedule_idx,
                                                 number_of_pending_depreciations)
    ELSE get_wdv_or_dd_depr_amount(depreciable_value,
            get_updated_rate_of_depreciation_for_wdv_and_dd(asset, depreciable_value, fb_row),
            fb_row.frequency_of_depreciation, schedule_idx, prev_depreciation_amount,
            has_wdv_or_dd_non_yearly_pro_rata)

\* ------------------------------------------------ schedule generator
NoJE == 0

\* a row as add_depr_schedule_row appends it
NewRow(schedule_date, depreciation_amount) ==
    [schedule_date |-> schedule_date,
     depreciation_amount |-> depreciation_amount,
     accumulated_depreciation_amount |-> 0,
     journal_entry |-> NoJE]

add_depr_schedule_row(rows, schedule_date, depreciation_amount) ==
    Append(rows, NewRow(schedule_date, depreciation_amount))

RECURSIVE LeadingBooked(_)
\* the number of leading rows that bear a journal entry
LeadingBooked(rows) ==
    IF rows = << >> \/ Head(rows).journal_entry = NoJE
    THEN 0
    ELSE 1 + LeadingBooked(Tail(rows))

\* a clearing that keeps every row
clear_depr_schedule_keeping_every_row(rows) == [rows |-> rows, start |-> 0]

\* [rows: the rows kept, start]; start stays 0 when no row without a journal
\* entry ends the loop
clear_depr_schedule(rows) ==
    LET num_of_depreciations_completed == LeadingBooked(rows)
    IN  [rows  |-> SubSeq(rows, 1, num_of_depreciations_completed),
         start |-> IF num_of_depreciations_completed < Len(rows)
                   THEN num_of_depreciations_completed
                   ELSE 0]

get_value_after_depreciation_for_making_schedule(asset_doc, fb_row) ==
    IF asset_doc.docstatus = 1 /\ fb_row.value_after_depreciation # 0
    THEN fb_row.value_after_depreciation
    ELSE asset_doc.gross_purchase_amount - asset_doc.opening_accumulated_depreciation

get_depreciation_amount_for_first_row(rows) ==
    IF rows = << >> THEN Raise ELSE Val(rows[1].depreciation_amount)

\* an adjustment that leaves the plain pro-rata amount
get_adjusted_depreciation_amount_leaving_pro_rata(self, rows, depreciation_amount_without_pro_rata, depreciation_amount_for_last_row) ==
    Val(depreciation_amount_for_last_row)

get_adjusted_depreciation_amount(self, rows, depreciation_amount_without_pro_rata, depreciation_amount_for_last_row) ==
    IF self.opening_accumulated_depreciation = 0
    THEN LET first == get_depreciation_amount_for_first_row(rows)
         IN  IF ~first.ok THEN Raise
             ELSE IF first.v + depreciation_amount_for_last_row
                       # depreciation_amount_without_pro_rata
             THEN Val(depreciation_amount_without_pro_rata - first.v)
             ELSE Val(depreciation_amount_for_last_row)
    ELSE Val(depreciation_amount_for_last_row)

\* the loop's variables: st.schedule_date is NoDate while unbound, st.done is
\* the break of the disposal branch
LoopFail(st) == [st EXCEPT !.ok = FALSE]

\* lines 354-375: the end of one iteration, amount being the period's amount
FinishPeriod(c, n, st, amount, schedule_date, to_date) ==
    LET st1 == [st EXCEPT !.schedule_date = schedule_date, !.to_date = to_date]
        value == st.value - Flt(amount)
        expected == c.row.expected_value_after_useful_life
        adjust == expected # 0
                    /\ ((n = c.final - 1 /\ value # expected) \/ value < expected)
        depreciation_amount == IF adjust THEN amount + value - expected ELSE amount
    IN  IF amount = 0 THEN st1
        ELSE IF Flt(depreciation_amount) > 0
        THEN IF schedule_date = NoDate THEN LoopFail(st1)
             ELSE [st1 EXCEPT !.value = value, !.skip_row = adjust,
                              !.rows = add_depr_schedule_row(st.rows, schedule_date,
                                                             depreciation_amount)]
        ELSE [st1 EXCEPT !.value = value, !.skip_row = adjust]

\* lines 243-352: one iteration of the loop that is not skipped
MakePeriod(c, n, st) ==
    LET asset_doc == c.asset_doc
        row == c.row
        self == c.self
        prev_depreciation_amount ==
            IF n > 0 /\ Len(st.rows) > n - 1
            THEN st.rows[n].depreciation_amount ELSE 0
        nominal == add_months(row.depreciation_start_date,
                              n * row.frequency_of_depreciation)
    IN
    With(get_depreciation_amount(asset_doc, st.value, row, n,
             prev_depreciation_amount, c.has_wdv_or_dd_non_yearly_pro_rata,
             c.number_of_pending_depreciations), LAMBDA amt :
    With(IF ~c.has_pro_rata \/ n < c.final - 1 \/ c.final = 2
         THEN With(nominal, LAMBDA d : IF c.should_get_last_day THEN get_last_day(d) ELSE d)
         ELSE st.schedule_date, LAMBDA schedule_date :
    IF ~amt.ok THEN LoopFail(st)
    ELSE IF c.date_of_disposal # NoDate
    THEN \* the asset is being sold or scrapped
         LET from_date == IF st.rows # << >>
                          THEN st.rows[Len(st.rows)].schedule_date
                          ELSE add_months(asset_doc.available_for_use_date,
                                   asset_doc.number_of_depreciations_booked
                                     * row.frequency_of_depreciation)
         IN  With(get_pro_rata_amt(row, amt.v, from_date, c.date_of_disposal, FALSE),
                  LAMBDA p :
             IF ~p.ok THEN LoopFail(st)
             ELSE [st EXCEPT !.done = TRUE, !.schedule_date = schedule_date,
                       !.rows = IF p.v > 0
                                THEN add_depr_schedule_row(st.rows, c.date_of_disposal, p.v)
                                ELSE st.rows])
    ELSE IF n = 0 /\ (c.has_pro_rata \/ c.has_wdv_or_dd_non_yearly_pro_rata)
              /\ self.opening_accumulated_depreciation = 0
    THEN \* the first row
         With(get_pro_rata_amt(row, amt.v,
                  add_days(asset_doc.available_for_use_date, 0 - 1),
                  row.depreciation_start_date, c.has_wdv_or_dd_non_yearly_pro_rata),
              LAMBDA p :
             IF ~p.ok THEN LoopFail(st)
             ELSE FinishPeriod(c, n, st, p.v, schedule_date, st.to_date))
    ELSE IF n = 0 /\ c.has_wdv_or_dd_non_yearly_pro_rata
              /\ self.opening_accumulated_depreciation # 0
    THEN LET from_date ==
                 IF ~is_first_day_of_the_month(asset_doc.available_for_use_date)
                 THEN get_last_day(add_months(asset_doc.available_for_use_date,
                          (self.number_of_depreciations_booked - 1)
                            * row.frequency_of_depreciation))
                 ELSE add_months(add_days(asset_doc.available_for_use_date, 0 - 1),
                          self.number_of_depreciations_booked
                            * row.frequency_of_depreciation)
         IN  With(get_pro_rata_amt(row, amt.v, from_date, row.depreciation_start_date,
                                   c.has_wdv_or_dd_non_yearly_pro_rata), LAMBDA p :
             IF ~p.ok THEN LoopFail(st)
             ELSE FinishPeriod(c, n, st, p.v, schedule_date, st.to_date))
    ELSE IF c.has_pro_rata /\ n = c.final - 1
    THEN \* the last row
         With(IF "increase_in_asset_life" \in asset_doc.flags
              THEN st.to_date
              ELSE add_months(asset_doc.available_for_use_date,
                       (n + self.number_of_depreciations_booked)
                         * row.frequency_of_depreciation), LAMBDA to_date :
         IF schedule_date = NoDate \/ to_date = NoDate
         THEN LoopFail([st EXCEPT !.to_date = to_date])
         ELSE
         With(get_pro_rata_amt(row, amt.v, schedule_date, to_date,
                               c.has_wdv_or_dd_non_yearly_pro_rata), LAMBDA p :
         With(get_adjusted_depreciation_amount(self, st.rows, amt.v, p.v),
              LAMBDA adjusted :
             IF ~p.ok \/ ~adjusted.ok THEN LoopFail([st EXCEPT !.to_date = to_date])
             ELSE FinishPeriod(c, n, st, adjusted.v, add_days(schedule_date, p.days),
                               to_date))))
    ELSE FinishPeriod(c, n, st, amt.v, schedule_date, st.to_date)))

RECURSIVE MakeLoop(_, _, _)
\* for n in range(start, final_number_of_depreciations)
MakeLoop(c, n, st) ==
    IF n >= c.final \/ ~st.ok \/ st.done \/ st.skip_row
    THEN st
    ELSE MakeLoop(c, n + 1, MakePeriod(c, n, st))

\* the configuration check of the asset: a policy must leave periods to book
validate_asset_finance_books(asset_doc, row) ==
    row.total_number_of_depreciations > asset_doc.number_of_depreciations_booked

\* [ok, rows, row: the policy row as left (and stored when written), written,
\*  to_date: asset_doc.to_date as left]; self.depreciation_schedule is rows
make_depr_schedule_rows(self, rows, asset_doc, row, start, date_of_disposal, update_asset_finance_book_row, value_after_depreciation) ==
    With(IF value_after_depreciation = 0
         THEN get_value_after_depreciation_for_making_schedule(asset_doc, row)
         ELSE value_after_depreciation, LAMBDA value :
    With([row EXCEPT !.value_after_depreciation = value], LAMBDA row1 :
    With(check_is_pro_rata(asset_doc, row1, FALSE), LAMBDA has_pro_rata :
    With((row1.total_number_of_depreciations - self.number_of_depreciations_booked)
           + (IF has_pro_rata THEN 1 ELSE 0), LAMBDA final :
    With(MakeLoop([asset_doc |-> asset_doc, row |-> row1, self |-> self,
                   date_of_disposal |-> date_of_disposal,
                   final |-> final,
                   has_pro_rata |-> has_pro_rata,
                   has_wdv_or_dd_non_yearly_pro_rata |->
                       IsWdvOrDd(row1.depreciation_method)
                         /\ row1.frequency_of_depreciation # 12
                         /\ check_is_pro_rata(asset_doc, row1, TRUE),
                   should_get_last_day |->
                       is_last_day_of_the_month(row1.depreciation_start_date),
                   number_of_pending_depreciations |-> final - start],
                  start,
                  [rows |-> rows, value |-> value, skip_row |-> FALSE,
                   schedule_date |-> NoDate, to_date |-> asset_doc.to_date,
                   ok |-> TRUE, done |-> FALSE]), LAMBDA st :
        IF ~validate_asset_finance_books(asset_doc, row)
        THEN [ok |-> FALSE, rows |-> rows, row |-> row, written |-> FALSE,
              to_date |-> asset_doc.to_date]
        ELSE [ok |-> st.ok, rows |-> st.rows, row |-> row1,
              written |-> update_asset_finance_book_row, to_date |-> st.to_date])))))

\* make_depr_schedule: nothing is done for an asset without available-for-use date
make_depr_schedule(self, asset_doc, row, date_of_disposal, update_asset_finance_book_row, value_after_depreciation) ==
    IF asset_doc.available_for_use_date = NoDate
    THEN [ok |-> TRUE, rows |-> self.depreciation_schedule, row |-> row,
          written |-> FALSE, to_date |-> asset_doc.to_date]
    ELSE With(clear_depr_schedule(self.depreciation_schedule), LAMBDA cleared :
             make_depr_schedule_rows(self, cleared.rows, asset_doc, row, cleared.start,
                 date_of_disposal, update_asset_finance_book_row, value_after_depreciation))

\* ------------------------------- accumulated-depreciation reconciler
RECURSIVE AccumulateFrom(_, _, _, _, _, _)
\* the loop of set_accumulated_depreciation from row i (1-based) on; c holds
\* the arguments, accumulated_depreciation is 0 for None as well
AccumulateFrom(c, rows, i, accumulated_depreciation, value_after_depreciation, straight_line_last) ==
    IF i > Len(rows) THEN rows
    ELSE
    LET d == rows[i]
    IN  IF c.ignore_booked_entry /\ d.journal_entry # NoJE
        THEN AccumulateFrom(c, rows, i + 1, accumulated_depreciation,
                            value_after_depreciation, straight_line_last)
        ELSE
        LET accumulated ==
                IF accumulated_depreciation = 0
                THEN (IF i > 1 /\ c.decrease_in_asset_value_due_to_value_adjustment
                      THEN rows[i - 1].accumulated_depreciation_amount
                      ELSE c.opening_accumulated_depreciation)
                ELSE accumulated_depreciation
            value == value_after_depreciation - Flt(d.depreciation_amount)
            depreciation_amount ==
                IF straight_line_last # 0 /\ i = straight_line_last
                     /\ c.date_of_disposal = NoDate /\ c.date_of_return = NoDate
                THEN Flt(d.depreciation_amount)
                       + Flt(value - c.expected_value_after_useful_life)
                ELSE Flt(d.depreciation_amount)
        IN  AccumulateFrom(c,
                [rows EXCEPT ![i] = [d EXCEPT
                    !.depreciation_amount = depreciation_amount,
                    !.accumulated_depreciation_amount =
                        Flt(accumulated + depreciation_amount)]],
                i + 1, accumulated + depreciation_amount, value, straight_line_last)

\* a reconciler that adjusts no row to the expected value
set_accumulated_depreciation_without_adjustment(self, rows, asset_doc, row, date_of_disposal, date_of_return, ignore_booked_entry) ==
    AccumulateFrom(
        [ignore_booked_entry |-> ignore_booked_entry,
         decrease_in_asset_value_due_to_value_adjustment |->
             "decrease_in_asset_value_due_to_value_adjustment" \in asset_doc.flags,
         opening_accumulated_depreciation |-> self.opening_accumulated_depreciation,
         expected_value_after_useful_life |-> row.expected_value_after_useful_life,
         date_of_disposal |-> date_of_disposal,
         date_of_return |-> date_of_return],
        rows, 1, 0, row.value_after_depreciation, 0)

\* the rows of self after set_accumulated_depreciation; the idx of a row is
\* its position, so max(straight_line_idx) is the number of rows
set_accumulated_depreciation(self, rows, asset_doc, row, date_of_disposal, date_of_return, ignore_booked_entry) ==
    AccumulateFrom(
        [ignore_booked_entry |-> ignore_booked_entry,
         decrease_in_asset_value_due_to_value_adjustment |->
             "decrease_in_asset_value_due_to_value_adjustment" \in asset_doc.flags,
         opening_accumulated_depreciation |-> self.opening_accumulated_depreciation,
         expected_value_after_useful_life |-> row.expected_value_after_useful_life,
         date_of_disposal |-> date_of_disposal,
         date_of_return |-> date_of_return],
        rows, 1, 0, row.value_after_depreciation,
        IF IsStraightLineOrManual(self.depreciation_method) THEN Len(rows) ELSE 0)

\* ------------------------------------------------- the schedule document
\* Python's None for a number or a name of a document
None == 0 - 1

\* frappe.new_doc("Asset Depreciation Schedule"): no field is set
new_doc ==
    [name |-> 0, asset |-> "", finance_book |-> "", docstatus |-> 0, status |-> "Draft",
     opening_accumulated_depreciation |-> None,
     number_of_depreciations_booked |-> None,
     gross_purchase_amount |-> None,
     depreciation_method |-> "",
     total_number_of_depreciations |-> None,
     frequency_of_depreciation |-> None,
     rate_of_depreciation |-> None,
     expected_value_after_useful_life |-> None,
     daily_prorata_based |-> FALSE,
     depreciation_schedule |-> << >>]

\* frappe.copy_doc: a deep copy without name and docstatus
copy_doc(doc) == [doc EXCEPT !.name = 0, !.docstatus = None]

have_asset_details_been_modified(self, asset_doc) ==
    \/ asset_doc.gross_purchase_amount # self.gross_purchase_amount
    \/ asset_doc.opening_accumulated_depreciation # self.opening_accumulated_depreciation
    \/ asset_doc.number_of_depreciations_booked # self.number_of_depreciations_booked

\* an IndexError when the comparison reaches the first row of an empty schedule
not_manual_depr_or_have_manual_depr_details_been_modified(self, row) ==
    IF \/ self.depreciation_method # "Manual"
       \/ row.total_number_of_depreciations # self.total_number_of_depreciations
       \/ row.frequency_of_depreciation # self.frequency_of_depreciation
    THEN Val(TRUE)
    ELSE IF self.depreciation_schedule = << >> THEN Raise
    ELSE Val(\/ row.depreciation_start_date # self.depreciation_schedule[1].schedule_date
             \/ row.expected_value_after_useful_life
                  # self.expected_value_after_useful_life)

\* a faulty variant of should_prepare_depreciation_schedule: the policy's
\* details are not looked at
should_prepare_depreciation_schedule_on_asset_details_only(self, asset_details_modified, manual_details_modified) ==
    \/ self.depreciation_schedule = << >>
    \/ self.docstatus # 0
    \/ asset_details_modified

\* get_doc_before_save() is None in every caller: the document is prepared
\* before it is saved
should_prepare_depreciation_schedule(self, asset_details_modified, manual_details_modified) ==
    \/ self.depreciation_schedule = << >>
    \/ self.docstatus # 0
    \/ asset_details_modified
    \/ manual_details_modified

set_draft_asset_depr_schedule_details(self, asset_doc, row) ==
    [self EXCEPT
        !.asset = asset_doc.name,
        !.finance_book = row.finance_book,
        !.opening_accumulated_depreciation = asset_doc.opening_accumulated_depreciation,
        !.number_of_depreciations_booked = asset_doc.number_of_depreciations_booked,
        !.gross_purchase_amount = asset_doc.gross_purchase_amount,
        !.depreciation_method = row.depreciation_method,
        !.total_number_of_depreciations = row.total_number_of_depreciations,
        !.frequency_of_depreciation = row.frequency_of_depreciation,
        !.rate_of_depreciation = row.rate_of_depreciation,
        !.expected_value_after_useful_life = row.expected_value_after_useful_life,
        !.daily_prorata_based = row.daily_prorata_based,
        !.status = "Draft"]

\* [ok, self, row, written, to_date]: the document, the policy row and
\* asset_doc.to_date as the call leaves them; written: the row was stored
prepare_draft_asset_depr_schedule_data(self, asset_doc, row, date_of_disposal, date_of_return, update_asset_finance_book_row) ==
    LET asset_details_modified == have_asset_details_been_modified(self, asset_doc)
        manual_details_modified ==
            not_manual_depr_or_have_manual_depr_details_been_modified(self, row)
        self1 == set_draft_asset_depr_schedule_details(self, asset_doc, row)
    IN  IF ~manual_details_modified.ok
        THEN [ok |-> FALSE, self |-> self, row |-> row, written |-> FALSE,
              to_date |-> asset_doc.to_date]
        ELSE IF ~should_prepare_depreciation_schedule(self1, asset_details_modified,
                                                      manual_details_modified.v)
        THEN [ok |-> TRUE, self |-> self1, row |-> row, written |-> FALSE,
              to_date |-> asset_doc.to_date]
        ELSE With(make_depr_schedule(self1, asset_doc, row, date_of_disposal,
                                     update_asset_finance_book_row, 0), LAMBDA m :
             [ok |-> m.ok,
              self |-> [self1 EXCEPT !.depreciation_schedule =
                           IF ~m.ok THEN m.rows
                           ELSE set_accumulated_depreciation(self1, m.rows,
                                    [asset_doc EXCEPT !.to_date = m.to_date], m.row,
                                    date_of_disposal, date_of_return, FALSE)],
              row |-> m.row, written |-> m.written, to_date |-> m.to_date])

\* --------------------------------------------------------- the store
\* the documents matching a filter, and the one the database returns
Names(docs) == 1..Len(docs)

PickName(matches) ==
    IF matches = {} THEN 0 ELSE CHOOSE n \in matches : \A m \in matches : m <= n

\* frappe.db.exists with asset, finance book and docstatus < 2
ExistsNotCancelled(docs, asset_name, finance_book) ==
    PickName({n \in Names(docs) : /\ docs[n].asset = asset_name
                                  /\ docs[n].finance_book = finance_book
                                  /\ docs[n].docstatus < 2})

\* faulty variants of the validation: one that never throws, one that looks
\* for another schedule among the drafts only
validate_without_lookup(docs, self) == TRUE

validate_against_drafts_only(docs, self) ==
    ~\E n \in Names(docs) : /\ docs[n].asset = self.asset
                            /\ docs[n].finance_book = self.finance_book
                            /\ docs[n].docstatus < 1
                            /\ n # self.name

\* TRUE when validate passes, FALSE when it throws the duplicate-schedule error
validate_another_asset_depr_schedule_does_not_exist(docs, self) ==
    LET asset_depr_schedule == ExistsNotCancelled(docs, self.asset, self.finance_book)
    IN  ~(asset_depr_schedule # 0 /\ asset_depr_schedule # self.name)

\* a faulty variant of the lookup: the status filter is left out
get_asset_depr_schedule_name_any_status(docs, asset_name, status, finance_book) ==
    PickName({n \in Names(docs) : /\ docs[n].asset = asset_name
                                  /\ docs[n].finance_book = finance_book})

get_asset_depr_schedule_name(docs, asset_name, status, finance_book) ==
    PickName({n \in Names(docs) : /\ docs[n].asset = asset_name
                                  /\ docs[n].finance_book = finance_book
                                  /\ docs[n].status = status})

\* faulty variants of the hooks: a wrong status is set, or none
on_submit_as_cancelled(doc) == [doc EXCEPT !.status = "Cancelled"]

on_cancel_without_status(doc) == doc

on_submit(doc) == [doc EXCEPT !.status = "Active"]

on_cancel(doc) == [doc EXCEPT !.status = "Cancelled"]

\* the journal after cancel_depreciation_entries
cancel_depreciation_entries(doc, journal) ==
    [je \in DOMAIN journal |->
        IF \E i \in 1..Len(doc.depreciation_schedule) :
               doc.depreciation_schedule[i].journal_entry = je
        THEN "cancelled" ELSE journal[je]]

\* a faulty variant of before_cancel: the flag is not looked at
before_cancel_whatever_the_flag(doc, journal, should_not_cancel_depreciation_entries) ==
    cancel_depreciation_entries(doc, journal)

\* a faulty variant of before_cancel: the entries are never cancelled
before_cancel_keeps_entries(doc, journal, should_not_cancel_depreciation_entries) ==
    journal

before_cancel(doc, journal, should_not_cancel_depreciation_entries) ==
    IF ~should_not_cancel_depreciation_entries
    THEN cancel_depreciation_entries(doc, journal)
    ELSE journal

\* a store: the schedules (docs, named by position), the stored policy rows
\* (fbstore), the journal entries and the caller's asset document
Store(d, f, j, a) == [docs |-> d, fbstore |-> f, journal |-> j, asset |-> a]

\* an operation's outcome: err is "" when it returns, else the error raised
Outcome(S, err) == [S |-> S, err |-> err]

\* the policy row i and asset_doc.to_date as a generation leaves them;
\* row.db_update() when written
PutRow(S, i, row, written, to_date) ==
    [S EXCEPT !.asset = [S.asset EXCEPT !.finance_books[i] = row, !.to_date = to_date],
              !.fbstore = IF written THEN [S.fbstore EXCEPT ![i] = row] ELSE S.fbstore]

\* Document.insert(): validate, then the document is stored as a draft
insert(S, doc) ==
    LET named == [doc EXCEPT !.name = Len(S.docs) + 1, !.docstatus = 0]
    IN  IF ~validate_another_asset_depr_schedule_does_not_exist(S.docs, named)
        THEN Outcome(S, "duplicate")
        ELSE Outcome([S EXCEPT !.docs = Append(S.docs, named)], "")

\* Document.submit() of a stored or of a new document
submit(S, doc) ==
    LET named == IF doc.name = 0
                 THEN [doc EXCEPT !.name = Len(S.docs) + 1, !.docstatus = 1]
                 ELSE [doc EXCEPT !.docstatus = 1]
    IN  IF ~validate_another_asset_depr_schedule_does_not_exist(S.docs, named)
        THEN Outcome(S, "duplicate")
        ELSE IF doc.name = 0
        THEN Outcome([S EXCEPT !.docs = Append(S.docs, on_submit(named))], "")
        ELSE Outcome([S EXCEPT !.docs[doc.name] = on_submit(named)], "")

\* Document.cancel() of the stored document name
cancel(S, name, should_not_cancel_depreciation_entries) ==
    [S EXCEPT !.journal = before_cancel(S.docs[name], S.journal,
                                        should_not_cancel_depreciation_entries),
              !.docs[name] = on_cancel([S.docs[name] EXCEPT !.docstatus = 2])]

\* Document.save() of a stored draft
save(S, doc) ==
    IF ~validate_another_asset_depr_schedule_does_not_exist(S.docs, doc)
    THEN Outcome(S, "duplicate")
    ELSE Outcome([S EXCEPT !.docs[doc.name] = doc], "")

\* --------------------------------------------------- lifecycle manager
make_draft_asset_depr_schedule(S, i) ==
    With(prepare_draft_asset_depr_schedule_data(new_doc, S.asset,
             S.asset.finance_books[i], NoDate, NoDate, TRUE), LAMBDA p :
        LET S1 == PutRow(S, i, p.row, p.written, p.to_date)
        IN  IF ~p.ok THEN Outcome(S1, "configuration") ELSE insert(S1, p.self))

RECURSIVE make_draft_loop(_, _, _)
\* the loop of make_draft_asset_depr_schedules[_if_not_present] from row i on
make_draft_loop(S, i, if_not_present) ==
    IF i > Len(S.asset.finance_books) THEN Outcome(S, "")
    ELSE LET fb == S.asset.finance_books[i].finance_book
             draft == get_asset_depr_schedule_name(S.docs, S.asset.name, "Draft", fb)
             active == get_asset_depr_schedule_name(S.docs, S.asset.name, "Active", fb)
         IN  IF if_not_present /\ (draft # 0 \/ active # 0)
             THEN make_draft_loop(S, i + 1, if_not_present)
             ELSE With(make_draft_asset_depr_schedule(S, i), LAMBDA made :
                      IF made.err # "" THEN made
                      ELSE make_draft_loop(made.S, i + 1, if_not_present))

make_draft_asset_depr_schedules_if_not_present(S) == make_draft_loop(S, 1, TRUE)

make_draft_asset_depr_schedules(S) == make_draft_loop(S, 1, FALSE)

RECURSIVE update_draft_loop(_, _)
update_draft_loop(S, i) ==
    IF i > Len(S.asset.finance_books) THEN Outcome(S, "")
    ELSE LET row == S.asset.finance_books[i]
         IN
         With(get_asset_depr_schedule_name(S.docs, S.asset.name, "Draft",
                                           row.finance_book), LAMBDA name :
         IF name = 0 THEN update_draft_loop(S, i + 1)
         ELSE
         With(prepare_draft_asset_depr_schedule_data(S.docs[name], S.asset, row,
                                                     NoDate, NoDate, TRUE), LAMBDA p :
         With(PutRow(S, i, p.row, p.written, p.to_date), LAMBDA S1 :
         IF ~p.ok THEN Outcome(S1, "configuration")
         ELSE
         With(save(S1, p.self), LAMBDA saved :
             IF saved.err # "" THEN saved
             ELSE update_draft_loop(saved.S, i + 1)))))

update_draft_asset_depr_schedules(S) == update_draft_loop(S, 1)

RECURSIVE convert_loop(_, _)
convert_loop(S, i) ==
    IF i > Len(S.asset.finance_books) THEN Outcome(S, "")
    ELSE With(get_asset_depr_schedule_name(S.docs, S.asset.name, "Draft",
                  S.asset.finance_books[i].finance_book), LAMBDA name :
         IF name = 0 THEN convert_loop(S, i + 1)
         ELSE With(submit(S, S.docs[name]), LAMBDA submitted :
                  IF submitted.err # "" THEN submitted
                  ELSE convert_loop(submitted.S, i + 1)))

convert_draft_asset_depr_schedules_into_active(S) == convert_loop(S, 1)

RECURSIVE cancel_loop(_, _)
cancel_loop(S, i) ==
    IF i > Len(S.asset.finance_books) THEN Outcome(S, "")
    ELSE With(get_asset_depr_schedule_name(S.docs, S.asset.name, "Active",
                  S.asset.finance_books[i].finance_book), LAMBDA name :
         IF name = 0 THEN cancel_loop(S, i + 1)
         ELSE cancel_loop(cancel(S, name, FALSE), i + 1))

cancel_asset_depr_schedules(S) == cancel_loop(S, 1)

\* asset_doc.get_depreciation_rate(row): the policy's rate
get_depreciation_rate(asset_doc, row) == row.rate_of_depreciation

\* lines 778-795: the new document of one finance book, not yet stored
\* [ok, self, row, written, to_date]
new_asset_depr_schedule_doc(current, asset_doc, row0, a) ==
    LET new_rate == "increase_in_asset_value_due_to_repair" \in asset_doc.flags
                      /\ IsWdvOrDd(row0.depreciation_method)
        row == IF new_rate
               THEN [row0 EXCEPT !.rate_of_depreciation =
                                     get_depreciation_rate(asset_doc, row0)]
               ELSE row0
        copy == IF new_rate
                THEN [copy_doc(current) EXCEPT !.rate_of_depreciation =
                                                   row.rate_of_depreciation]
                ELSE copy_doc(current)
    IN  With(make_depr_schedule(copy, asset_doc, row, a.date_of_disposal, TRUE,
                                a.value_after_depreciation), LAMBDA m :
        [ok |-> m.ok,
         self |-> [copy EXCEPT !.depreciation_schedule =
                      IF ~m.ok THEN m.rows
                      ELSE set_accumulated_depreciation(copy, m.rows,
                               [asset_doc EXCEPT !.to_date = m.to_date], m.row,
                               a.date_of_disposal, a.date_of_return,
                               a.ignore_booked_entry)],
         row |-> m.row, written |-> m.written, to_date |-> m.to_date])

RECURSIVE regenerate_loop(_, _, _)
\* the loop of make_new_active_asset_depr_schedules_and_cancel_current_ones
regenerate_loop(S, i, a) ==
    IF i > Len(S.asset.finance_books) THEN Outcome(S, "")
    ELSE LET row == S.asset.finance_books[i]
         IN
         With(get_asset_depr_schedule_name(S.docs, S.asset.name, "Active",
                                           row.finance_book), LAMBDA current :
         IF current = 0 THEN Outcome(S, "not found")
         ELSE
         With(new_asset_depr_schedule_doc(S.docs[current], S.asset, row, a), LAMBDA n :
         With(PutRow(S, i, n.row, n.written, n.to_date), LAMBDA S1 :
         IF ~n.ok THEN Outcome(S1, "configuration")
         ELSE
         With(submit(cancel(S1, current, TRUE), n.self), LAMBDA submitted :
             IF submitted.err # "" THEN submitted
             ELSE regenerate_loop(submitted.S, i + 1, a)))))

make_new_active_asset_depr_schedules_and_cancel_current_ones(S, a) ==
    regenerate_loop(S, 1, a)

\* [S, err, doc]: the temporary document is returned, nothing is stored
get_temp_asset_depr_schedule_doc(S, i, date_of_disposal, date_of_return) ==
    LET row == S.asset.finance_books[i]
    IN
    With(get_asset_depr_schedule_name(S.docs, S.asset.name, "Active",
                                      row.finance_book), LAMBDA current :
    IF current = 0 THEN [S |-> S, err |-> "not found", doc |-> new_doc]
    ELSE
    With(prepare_draft_asset_depr_schedule_data(copy_doc(S.docs[current]), S.asset,
             row, date_of_disposal, date_of_return, FALSE), LAMBDA p :
        [S |-> PutRow(S, i, p.row, p.written, p.to_date),
         err |-> IF p.ok THEN "" ELSE "configuration", doc |-> p.self]))

\* ------------------------------------------------------------- state
VARIABLES
    docs,     \* the stored schedules, the name of a schedule being its position
    fbstore,  \* the stored finance-book policy rows of the asset
    journal,  \* journal entry -> "none" | "posted" | "cancelled"
    asset,    \* the asset document the caller holds and passes to the engine
    last,     \* the last operation and the error it raised ("" when none)
    calls,    \* the regenerations in progress, one per concurrent caller
    serialized, \* the callers hold a lock for the whole of a regeneration
    gen       \* one schedule under generation: its inputs, rows before and after

vars == <<docs, fbstore, journal, asset, last, calls, serialized, gen>>

\* the inputs of the lifecycle specification
Gross == {1200 * Unit, 2400 * Unit}

AvailableForUse == MkDate(2020, 1, 1)

PolicyRows ==
    << [finance_book |-> "", depreciation_method |-> "Straight Line",
        total_number_of_depreciations |-> 2, frequency_of_depreciation |-> 12,
        rate_of_depreciation |-> 0, expected_value_after_useful_life |-> 0,
        depreciation_start_date |-> MkDate(2020, 12, 31),
        value_after_depreciation |-> 0, daily_prorata_based |-> FALSE],
       [finance_book |-> "FB1", depreciation_method |-> "Manual",
        total_number_of_depreciations |-> 2, frequency_of_depreciation |-> 12,
        rate_of_depreciation |-> 0, expected_value_after_useful_life |-> 200 * Unit,
        depreciation_start_date |-> MkDate(2020, 12, 31),
        value_after_depreciation |-> 0, daily_prorata_based |-> FALSE] >>

\* the arguments of a regeneration
RegenArgs ==
    {[date_of_disposal |-> NoDate, date_of_return |-> NoDate,
      value_after_depreciation |-> 0, ignore_booked_entry |-> FALSE],
     [date_of_disposal |-> MkDate(2021, 6, 30), date_of_return |-> NoDate,
      value_after_depreciation |-> 0, ignore_booked_entry |-> FALSE]}

Current == Store(docs, fbstore, journal, asset)

\* the name under which last records a regeneration
Regeneration == "make_new_active_asset_depr_schedules_and_cancel_current_ones"

\* the state after an operation that leaves the store S
Becomes(S, op, err) ==
    /\ Len(S.docs) <= MaxDocs
    /\ docs' = S.docs
    /\ fbstore' = S.fbstore
    /\ journal' = S.journal
    /\ asset' = S.asset
    /\ last' = [op |-> op, err |-> err]
    /\ UNCHANGED <<calls, serialized, gen>>

\* the concurrent callers; a caller that runs no regeneration
Procs == {1, 2}

IdleCall == [pc |-> "idle", i |-> 0, current |-> 0, new |-> new_doc]

NoGen == [phase |-> "none"]

InitStore ==
    /\ docs = << >>
    /\ fbstore = [i \in 1..Len(PolicyRows) |-> PolicyRows[i]]
    /\ journal = [je \in 1..MaxJE |-> "none"]
    /\ asset = [name |-> "A1", docstatus |-> 0,
                gross_purchase_amount |-> 1200 * Unit,
                opening_accumulated_depreciation |-> 0,
                number_of_depreciations_booked |-> 0,
                available_for_use_date |-> AvailableForUse,
                to_date |-> NoDate, flags |-> {},
                finance_books |-> PolicyRows]
    /\ last = [op |-> "init", err |-> ""]

Init ==
    /\ InitStore
    /\ calls = [p \in Procs |-> IdleCall]
    /\ serialized = TRUE
    /\ gen = NoGen

\* ----------------------------------------------------------- actions
MakeDraft ==
    \E i \in 1..Len(asset.finance_books) :
        \E r \in {make_draft_asset_depr_schedule(Current, i)} :
            Becomes(r.S, "make_draft_asset_depr_schedule", r.err)

MakeDraftsIfNotPresent ==
    \E r \in {make_draft_asset_depr_schedules_if_not_present(Current)} :
        Becomes(r.S, "make_draft_asset_depr_schedules_if_not_present", r.err)

MakeDrafts ==
    \E r \in {make_draft_asset_depr_schedules(Current)} :
        Becomes(r.S, "make_draft_asset_depr_schedules", r.err)

UpdateDrafts ==
    \E r \in {update_draft_asset_depr_schedules(Current)} :
        Becomes(r.S, "update_draft_asset_depr_schedules", r.err)

ConvertDrafts ==
    \E r \in {convert_draft_asset_depr_schedules_into_active(Current)} :
        Becomes(r.S, "convert_draft_asset_depr_schedules_into_active", r.err)

CancelSchedules ==
    \E r \in {cancel_asset_depr_schedules(Current)} :
        Becomes(r.S, "cancel_asset_depr_schedules", r.err)

Regenerate ==
    \E a \in RegenArgs :
        \E r \in {make_new_active_asset_depr_schedules_and_cancel_current_ones(Current, a)} :
            Becomes(r.S, Regeneration, r.err)

GetTemp ==
    \E i \in 1..Len(asset.finance_books), d \in {NoDate, MkDate(2021, 6, 30)} :
        \E r \in {get_temp_asset_depr_schedule_doc(Current, i, d, NoDate)} :
            Becomes(r.S, "get_temp_asset_depr_schedule_doc", r.err)

\* the collaborators: the asset is edited while a draft and submitted; the
\* depreciation of the next row of an Active schedule is posted
EditAsset ==
    /\ asset.docstatus = 0
    /\ \E g \in Gross \ {asset.gross_purchase_amount} :
           asset' = [asset EXCEPT !.gross_purchase_amount = g]
    /\ last' = [op |-> "edit asset", err |-> ""]
    /\ UNCHANGED <<docs, fbstore, journal, calls, serialized, gen>>

SubmitAsset ==
    /\ asset.docstatus = 0
    /\ asset' = [asset EXCEPT !.docstatus = 1]
    /\ last' = [op |-> "submit asset", err |-> ""]
    /\ UNCHANGED <<docs, fbstore, journal, calls, serialized, gen>>

PostDepreciation ==
    \E n \in Names(docs), je \in DOMAIN journal :
        LET k == LeadingBooked(docs[n].depreciation_schedule) + 1
        IN  /\ docs[n].status = "Active"
            /\ k <= Len(docs[n].depreciation_schedule)
            /\ journal[je] = "none"
            /\ \A j \in DOMAIN journal : j < je => journal[j] # "none"
            /\ docs' = [docs EXCEPT ![n].depreciation_schedule[k].journal_entry = je]
            /\ journal' = [journal EXCEPT ![je] = "posted"]
            /\ last' = [op |-> "post depreciation", err |-> ""]
            /\ UNCHANGED <<fbstore, asset, calls, serialized, gen>>

Next ==
    \/ MakeDraft
    \/ MakeDraftsIfNotPresent
    \/ MakeDrafts
    \/ UpdateDrafts
    \/ ConvertDrafts
    \/ CancelSchedules
    \/ Regenerate
    \/ GetTemp
    \/ PostDepreciation

\* the lifecycle of the schedules of one asset
Spec == Init /\ [][Next]_vars

\* the draft phase: the asset is edited and submitted between the operations
\* that create, refresh and activate its schedules
NextDraft ==
    \/ MakeDraft
    \/ MakeDraftsIfNotPresent
    \/ MakeDrafts
    \/ UpdateDrafts
    \/ ConvertDrafts
    \/ EditAsset
    \/ SubmitAsset

SpecDraft == Init /\ [][NextDraft]_vars

\* ------------------------------------------- concurrent regenerations
\* Two callers regenerate the schedules of the asset at once. A call goes
\* through the statements of lines 766-802 one at a time for each finance
\* book: it reads the Active schedule, copies and recomputes it, cancels the
\* old one, validates the new one and stores it as submitted. Under
\* serialized a caller only steps while the other is not inside its call.
ConcArgs ==
    [date_of_disposal |-> NoDate, date_of_return |-> NoDate,
     value_after_depreciation |-> 0, ignore_booked_entry |-> FALSE]

Inside(c) == c.pc \in {"read", "copy", "cancel", "validate", "submit"}

MayStep(p) == serialized => \A q \in Procs \ {p} : ~Inside(calls[q])

InitConc ==
    /\ InitStore
    /\ calls = [p \in Procs |-> IdleCall]
    /\ serialized \in BOOLEAN
    /\ gen = NoGen

\* the schedules are created and activated before any caller starts
ConcMakeDrafts ==
    /\ \A p \in Procs : calls[p].pc = "idle"
    /\ MakeDraftsIfNotPresent

ConcMakeDraft ==
    /\ \A p \in Procs : calls[p].pc = "idle"
    /\ MakeDraft

ConcConvertDrafts ==
    /\ \A p \in Procs : calls[p].pc = "idle"
    /\ ConvertDrafts

ConcBecomes(p, S, call, err) ==
    /\ docs' = S.docs
    /\ fbstore' = S.fbstore
    /\ journal' = S.journal
    /\ asset' = S.asset
    /\ calls' = [calls EXCEPT ![p] = call]
    /\ last' = [op |-> Regeneration, err |-> err]
    /\ UNCHANGED <<serialized, gen>>

ConcStart(p) ==
    /\ calls[p].pc = "idle"
    /\ \E n \in Names(docs) : docs[n].status = "Active"
    /\ MayStep(p)
    /\ ConcBecomes(p, Current, [calls[p] EXCEPT !.pc = "read", !.i = 1], "")

\* lines 767-776: get_asset_depr_schedule_doc, or the not-found error
ConcRead(p) ==
    /\ calls[p].pc = "read"
    /\ MayStep(p)
    /\ \E current \in {get_asset_depr_schedule_name(docs, asset.name, "Active",
                           asset.finance_books[calls[p].i].finance_book)} :
          IF current = 0
          THEN ConcBecomes(p, Current, [calls[p] EXCEPT !.pc = "failed"], "not found")
          ELSE ConcBecomes(p, Current,
                   [calls[p] EXCEPT !.pc = "copy", !.current = current,
                                    !.new = docs[current]], "")

\* lines 778-795: the copy is recomputed from the schedule read
ConcCopy(p) ==
    /\ calls[p].pc = "copy"
    /\ MayStep(p)
    /\ \E n \in {new_asset_depr_schedule_doc(calls[p].new, asset,
                     asset.finance_books[calls[p].i], ConcArgs)} :
          ConcBecomes(p, PutRow(Current, calls[p].i, n.row, n.written, n.to_date),
              [calls[p] EXCEPT !.pc = IF n.ok THEN "cancel" ELSE "failed",
                               !.new = n.self],
              IF n.ok THEN "" ELSE "configuration")

\* lines 799-800
ConcCancel(p) ==
    /\ calls[p].pc = "cancel"
    /\ MayStep(p)
    /\ ConcBecomes(p, cancel(Current, calls[p].current, TRUE),
                   [calls[p] EXCEPT !.pc = "validate"], "")

\* line 802, submit(): validate runs before the document is written
ConcValidate(p) ==
    /\ calls[p].pc = "validate"
    /\ MayStep(p)
    /\ IF validate_another_asset_depr_schedule_does_not_exist(docs, calls[p].new)
       THEN ConcBecomes(p, Current, [calls[p] EXCEPT !.pc = "submit"], "")
       ELSE ConcBecomes(p, Current, [calls[p] EXCEPT !.pc = "failed"], "duplicate")

\* line 802, submit(): the document is written and on_submit runs
ConcSubmit(p) ==
    /\ calls[p].pc = "submit"
    /\ MayStep(p)
    /\ ConcBecomes(p,
           [Current EXCEPT !.docs =
               Append(docs, on_submit([calls[p].new EXCEPT !.name = Len(docs) + 1,
                                                           !.docstatus = 1]))],
           [calls[p] EXCEPT
               !.pc = IF calls[p].i < Len(asset.finance_books) THEN "read" ELSE "done",
               !.i = IF calls[p].i < Len(asset.finance_books) THEN calls[p].i + 1
                     ELSE calls[p].i],
           "")

NextConc ==
    \/ ConcMakeDrafts
    \/ ConcMakeDraft
    \/ ConcConvertDrafts
    \/ \E p \in Procs : ConcStart(p)
    \/ \E p \in Procs : ConcRead(p)
    \/ \E p \in Procs : ConcCopy(p)
    \/ \E p \in Procs : ConcCancel(p)
    \/ \E p \in Procs : ConcValidate(p)
    \/ \E p \in Procs : ConcSubmit(p)

SpecConc == InitConc /\ [][NextConc]_vars

\* ------------------------------------------- one schedule, generated
\* The generator and the reconciler applied to one schedule: the schedule is
\* generated as a draft, activated with its asset, its rows are posted in
\* order, and it is regenerated as lines 778-795 do it. gen.before holds the
\* rows before the last regeneration, gen.self the schedule after it.
MaxRegens == 1

GenGross == {1100 * Unit, 1200 * Unit}

GenResidual == {0, 100 * Unit}

GenMethods == {"Straight Line", "Written Down Value"}

GenRow(method, residual) ==
    [finance_book |-> "", depreciation_method |-> method,
     total_number_of_depreciations |-> 2, frequency_of_depreciation |-> 12,
     rate_of_depreciation |-> IF IsWdvOrDd(method) THEN 50 ELSE 0,
     expected_value_after_useful_life |-> residual,
     depreciation_start_date |-> MkDate(2020, 12, 31),
     value_after_depreciation |-> 0, daily_prorata_based |-> FALSE]

GenAsset(gross, row) ==
    [name |-> "A1", docstatus |-> 0,
     gross_purchase_amount |-> gross,
     opening_accumulated_depreciation |-> 0,
     number_of_depreciations_booked |-> 0,
     available_for_use_date |-> AvailableForUse,
     to_date |-> NoDate, flags |-> {},
     finance_books |-> <<row>>]

\* the arguments of a regeneration and the flag its caller sets on the asset
GenArgs ==
    [date_of_disposal : {NoDate, MkDate(2021, 6, 30)},
     date_of_return : {NoDate},
     value_after_depreciation : {0},
     ignore_booked_entry : BOOLEAN]

GenFlags == {{}, {"decrease_in_asset_value_due_to_value_adjustment"}}

InitGen ==
    /\ InitStore
    /\ calls = [p \in Procs |-> IdleCall]
    /\ serialized = TRUE
    /\ gen \in {[phase |-> "input", step |-> "none", ok |-> TRUE, regens |-> 0,
                 asset_doc |-> GenAsset(g, GenRow(m, e)), row |-> GenRow(m, e),
                 self |-> new_doc, before |-> << >>,
                 args |-> CHOOSE a \in GenArgs : TRUE] :
                    g \in GenGross, m \in GenMethods, e \in GenResidual}

GenBecomes(g) ==
    /\ gen' = g
    /\ UNCHANGED <<docs, fbstore, journal, asset, last, calls, serialized>>

\* make_draft_asset_depr_schedule, lines 716-721, without the insert
GenDraft ==
    /\ gen.phase = "input"
    /\ \E p \in {prepare_draft_asset_depr_schedule_data(new_doc, gen.asset_doc, gen.row,
                     NoDate, NoDate, TRUE)} :
          GenBecomes([gen EXCEPT !.phase = "draft", !.step = "generated",
                                 !.ok = p.ok, !.self = p.self, !.row = p.row,
                                 !.asset_doc.to_date = p.to_date])

\* the asset and its schedule are submitted
GenActivate ==
    /\ gen.phase = "draft"
    /\ gen.ok
    /\ GenBecomes([gen EXCEPT !.phase = "active", !.step = "activated",
                              !.asset_doc.docstatus = 1,
                              !.self = on_submit([gen.self EXCEPT !.docstatus = 1])])

\* the depreciation of the next row is posted: the row gets its journal entry
\* and the value after depreciation of the policy row goes down by its amount
GenBook ==
    /\ gen.phase = "active"
    /\ gen.ok
    /\ LET k == LeadingBooked(gen.self.depreciation_schedule) + 1
       IN  /\ k <= Len(gen.self.depreciation_schedule)
           /\ GenBecomes([gen EXCEPT
                  !.step = "booked",
                  !.self.depreciation_schedule[k].journal_entry = k,
                  !.row.value_after_depreciation =
                      @ - gen.self.depreciation_schedule[k].depreciation_amount])

\* lines 778-795 and the submit of the new schedule
GenRegenerate ==
    /\ gen.phase = "active"
    /\ gen.ok
    /\ gen.regens < MaxRegens
    /\ \E a \in GenArgs, flags \in GenFlags :
       \E n \in {new_asset_depr_schedule_doc(gen.self,
                     [gen.asset_doc EXCEPT !.flags = flags], gen.row, a)} :
          GenBecomes([gen EXCEPT
              !.step = "regenerated", !.ok = n.ok, !.regens = @ + 1, !.args = a,
              !.asset_doc.flags = flags, !.asset_doc.to_date = n.to_date,
              !.before = gen.self.depreciation_schedule,
              !.self = on_submit([n.self EXCEPT !.docstatus = 1]),
              !.row = n.row])

NextGen ==
    \/ GenDraft
    \/ GenActivate
    \/ GenBook
    \/ GenRegenerate

SpecGen == InitGen /\ [][NextGen]_vars

\* --------------------------------------- schedules of many policies
\* The generator and the reconciler over the methods, amounts and calendars
\* of a policy: the schedule is generated as a draft, generated again on the
\* same draft, activated, posted row by row and regenerated.

\* a method get_depreciation_amount does not name
UnknownMethod == "Units of Production"

SchedMethods ==
    {"Straight Line", "Manual", "Written Down Value", "Double Declining Balance",
     UnknownMethod}

\* gross purchase amount and expected value after useful life
SchedMoney ==
    {[gross |-> 12000 * Unit, residual |-> 0],
     [gross |-> 1000 * Unit, residual |-> 100 * Unit],
     [gross |-> 1200 * Unit, residual |-> 0],
     [gross |-> 1000 * Unit, residual |-> 0]}

\* opening accumulated depreciation with the periods booked before the asset
\* was entered
SchedOpening ==
    {[opening |-> 0, booked |-> 0],
     [opening |-> 600 * Unit, booked |-> 1]}

\* the calendar of a policy: monthly from a month end, yearly from a year end,
\* monthly with 15 days in the first period, yearly for an asset in use since
\* the middle of the year before, an asset without available-for-use date, and
\* yearly with half a year in the first period, for three periods and for one
SchedTiming ==
    {[available |-> MkDate(2020, 1, 1), start |-> MkDate(2020, 1, 31),
      frequency |-> 1, total |-> 12],
     [available |-> MkDate(2020, 1, 1), start |-> MkDate(2020, 12, 31),
      frequency |-> 12, total |-> 5],
     [available |-> MkDate(2020, 1, 17), start |-> MkDate(2020, 1, 31),
      frequency |-> 1, total |-> 3],
     [available |-> MkDate(2019, 6, 1), start |-> MkDate(2020, 12, 31),
      frequency |-> 12, total |-> 3],
     [available |-> NoDate, start |-> MkDate(2020, 12, 31),
      frequency |-> 12, total |-> 3],
     [available |-> MkDate(2020, 7, 1), start |-> MkDate(2020, 12, 31),
      frequency |-> 12, total |-> 3],
     [available |-> MkDate(2020, 7, 1), start |-> MkDate(2020, 12, 31),
      frequency |-> 12, total |-> 1]}

SchedRate == 20

SchedRow(method, money, timing) ==
    [finance_book |-> "", depreciation_method |-> method,
     total_number_of_depreciations |-> timing.total,
     frequency_of_depreciation |-> timing.frequency,
     rate_of_depreciation |-> IF IsStraightLineOrManual(method) THEN 0 ELSE SchedRate,
     expected_value_after_useful_life |-> money.residual,
     depreciation_start_date |-> timing.start,
     value_after_depreciation |-> 0, daily_prorata_based |-> FALSE]

SchedAsset(money, opening, timing, row) ==
    [name |-> "A1", docstatus |-> 0,
     gross_purchase_amount |-> money.gross,
     opening_accumulated_depreciation |-> opening.opening,
     number_of_depreciations_booked |-> opening.booked,
     available_for_use_date |-> timing.available,
     to_date |-> NoDate, flags |-> {},
     finance_books |-> <<row>>]

\* the policies the schedules are generated for
SchedInputs ==
    [method : SchedMethods, money : SchedMoney,
     opening : SchedOpening, timing : SchedTiming]

InitSched ==
    /\ InitStore
    /\ calls = [p \in Procs |-> IdleCall]
    /\ serialized = TRUE
    /\ gen \in {[phase |-> "input", step |-> "none", ok |-> TRUE, regens |-> 0,
                 asset_doc |-> SchedAsset(c.money, c.opening, c.timing,
                                          SchedRow(c.method, c.money, c.timing)),
                 row |-> SchedRow(c.method, c.money, c.timing),
                 self |-> new_doc, before |-> << >>,
                 args |-> CHOOSE a \in GenArgs : TRUE] : c \in SchedInputs}

\* update_draft_asset_depr_schedules, line 733, without the save: the draft is
\* prepared again from the same asset and the same policy row
GenDraftAgain ==
    /\ gen.phase = "draft"
    /\ gen.step = "generated"
    /\ gen.ok
    /\ \E p \in {prepare_draft_asset_depr_schedule_data(gen.self, gen.asset_doc, gen.row,
                     NoDate, NoDate, TRUE)} :
          GenBecomes([gen EXCEPT !.step = "generated again",
                                 !.ok = p.ok, !.self = p.self, !.row = p.row,
                                 !.asset_doc.to_date = p.to_date,
                                 !.before = gen.self.depreciation_schedule])

\* lines 104-109 of prepare_draft_asset_depr_schedule_data: the rows as
\* make_depr_schedule leaves them, before set_accumulated_depreciation
GenMake ==
    /\ gen.phase = "input"
    /\ \E date_of_disposal \in {NoDate, MkDate(2021, 6, 30)} :
       \E m \in {make_depr_schedule(
                     set_draft_asset_depr_schedule_details(new_doc, gen.asset_doc, gen.row),
                     gen.asset_doc, gen.row, date_of_disposal, TRUE, 0)} :
          GenBecomes([gen EXCEPT
              !.phase = "made", !.step = "rows made", !.ok = m.ok,
              !.args.date_of_disposal = date_of_disposal,
              !.self = [set_draft_asset_depr_schedule_details(new_doc, gen.asset_doc,
                                                              gen.row)
                           EXCEPT !.depreciation_schedule = m.rows],
              !.row = m.row, !.asset_doc.to_date = m.to_date])

\* line 110 of prepare_draft_asset_depr_schedule_data: the rows made are
\* reconciled; before holds the rows as make_depr_schedule left them
GenReconcile ==
    /\ gen.phase = "made"
    /\ gen.ok
    /\ \E date_of_return \in {NoDate, MkDate(2021, 6, 30)} :
          /\ gen.args.date_of_disposal = NoDate \/ date_of_return = NoDate
          /\ GenBecomes([gen EXCEPT
                 !.phase = "reconciled", !.step = "reconciled",
                 !.args.date_of_return = date_of_return,
                 !.before = gen.self.depreciation_schedule,
                 !.self.depreciation_schedule =
                     set_accumulated_depreciation(gen.self, gen.self.depreciation_schedule,
                         gen.asset_doc, gen.row, gen.args.date_of_disposal,
                         date_of_return, FALSE)])

NextSched ==
    \/ GenDraft
    \/ GenMake
    \/ GenReconcile
    \/ GenDraftAgain
    \/ GenActivate
    \/ GenBook
    \/ GenRegenerate

SpecSched == InitSched /\ [][NextSched]_vars

\* ----------------------------------------- schedules of returned assets
\* the arguments of a regeneration for an asset that is returned
ReturnArgs ==
    [date_of_disposal : {NoDate},
     date_of_return : {MkDate(2021, 6, 30)},
     value_after_depreciation : {0},
     ignore_booked_entry : BOOLEAN]

\* lines 778-795 and the submit of the new schedule, with a return date
GenReturn ==
    /\ gen.phase = "active"
    /\ gen.ok
    /\ gen.regens < MaxRegens
    /\ \E a \in ReturnArgs :
       \E n \in {new_asset_depr_schedule_doc(gen.self, gen.asset_doc, gen.row, a)} :
          GenBecomes([gen EXCEPT
              !.step = "regenerated", !.ok = n.ok, !.regens = @ + 1, !.args = a,
              !.asset_doc.to_date = n.to_date,
              !.before = gen.self.depreciation_schedule,
              !.self = on_submit([n.self EXCEPT !.docstatus = 1]),
              !.row = n.row])

NextReturn ==
    \/ GenDraft
    \/ GenActivate
    \/ GenBook
    \/ GenReturn

SpecReturn == InitSched /\ [][NextReturn]_vars

\* ----------------------------------- rows of periods within the year
\* The rows as make_depr_schedule leaves them and as the reconciler leaves
\* them, for policies of half-yearly, quarterly and monthly periods, with and
\* without daily pro-rata.
\* half-yearly for an asset in use for a year, half-yearly with four months in
\* the first period, quarterly for an asset in use for a quarter and for one
\* in use for a year, monthly for twelve periods
PeriodTiming ==
    {[available |-> MkDate(2019, 7, 1), start |-> MkDate(2020, 6, 30),
      frequency |-> 6, total |-> 5],
     [available |-> MkDate(2020, 3, 1), start |-> MkDate(2020, 6, 30),
      frequency |-> 6, total |-> 4],
     [available |-> MkDate(2020, 1, 1), start |-> MkDate(2020, 3, 31),
      frequency |-> 3, total |-> 6],
     [available |-> MkDate(2019, 4, 1), start |-> MkDate(2020, 3, 31),
      frequency |-> 3, total |-> 6],
     [available |-> MkDate(2020, 1, 1), start |-> MkDate(2020, 1, 31),
      frequency |-> 1, total |-> 12]}

PeriodInputs ==
    [method : SchedMethods \ {UnknownMethod}, money : SchedMoney, opening : SchedOpening,
     timing : PeriodTiming, daily : BOOLEAN, flags : GenFlags]

PeriodRow(c) ==
    [SchedRow(c.method, c.money, c.timing) EXCEPT !.daily_prorata_based = c.daily]

InitPeriods ==
    /\ InitStore
    /\ calls = [p \in Procs |-> IdleCall]
    /\ serialized = TRUE
    /\ gen \in {[phase |-> "input", step |-> "none", ok |-> TRUE, regens |-> 0,
                 asset_doc |-> [SchedAsset(c.money, c.opening, c.timing, PeriodRow(c))
                                   EXCEPT !.flags = c.flags],
                 row |-> PeriodRow(c),
                 self |-> new_doc, before |-> << >>,
                 args |-> CHOOSE a \in GenArgs : TRUE] : c \in PeriodInputs}

NextPeriods ==
    \/ GenMake
    \/ GenReconcile

SpecPeriods == InitPeriods /\ [][NextPeriods]_vars

\* ------------------------------------------------ drafts prepared again
\* what the user changes on the asset or on its policy row before the draft
\* is prepared again
EditKinds ==
    {"nothing", "gross_purchase_amount", "opening_accumulated_depreciation",
     "number_of_depreciations_booked", "total_number_of_depreciations",
     "frequency_of_depreciation", "depreciation_start_date",
     "expected_value_after_useful_life", "depreciation_method",
     "rate_of_depreciation"}

EditedRow(row, kind) ==
    IF kind = "total_number_of_depreciations"
    THEN [row EXCEPT !.total_number_of_depreciations = @ + 1]
    ELSE IF kind = "frequency_of_depreciation"
    THEN [row EXCEPT !.frequency_of_depreciation = IF @ = 12 THEN 6 ELSE 12]
    ELSE IF kind = "depreciation_start_date"
    THEN [row EXCEPT !.depreciation_start_date = add_months(@, 12)]
    ELSE IF kind = "expected_value_after_useful_life"
    THEN [row EXCEPT !.expected_value_after_useful_life = @ + 50 * Unit]
    ELSE IF kind = "depreciation_method"
    THEN [row EXCEPT !.depreciation_method =
                         IF @ = "Manual" THEN "Straight Line" ELSE "Manual"]
    ELSE IF kind = "rate_of_depreciation"
    THEN [row EXCEPT !.rate_of_depreciation = @ + 5]
    ELSE row

EditedAsset(asset_doc, row, kind) ==
    [(IF kind = "gross_purchase_amount"
      THEN [asset_doc EXCEPT !.gross_purchase_amount = @ + 100 * Unit]
      ELSE IF kind = "opening_accumulated_depreciation"
      THEN [asset_doc EXCEPT !.opening_accumulated_depreciation = @ + 100 * Unit]
      ELSE IF kind = "number_of_depreciations_booked"
      THEN [asset_doc EXCEPT !.number_of_depreciations_booked = @ + 1]
      ELSE asset_doc)
        EXCEPT !.finance_books = <<EditedRow(row, kind)>>]

\* update_draft_asset_depr_schedules, line 733, without the save: the stored
\* draft is prepared again after the asset or the policy row was edited
GenEdit ==
    /\ gen.phase = "draft"
    /\ gen.step = "generated"
    /\ gen.ok
    /\ \E kind \in EditKinds :
       \E p \in {prepare_draft_asset_depr_schedule_data(gen.self,
                     EditedAsset(gen.asset_doc, gen.row, kind),
                     EditedRow(gen.row, kind), NoDate, NoDate, TRUE)} :
          GenBecomes([gen EXCEPT !.phase = "edited", !.step = kind,
                                 !.ok = p.ok, !.self = p.self, !.row = p.row,
                                 !.asset_doc = [EditedAsset(gen.asset_doc, gen.row, kind)
                                                   EXCEPT !.to_date = p.to_date],
                                 !.before = gen.self.depreciation_schedule])

NextEdit ==
    \/ GenDraft
    \/ GenEdit

SpecEdit == InitSched /\ [][NextEdit]_vars

\* ------------------------------------------------------- properties
\* at most one schedule of d that is not cancelled per (asset, finance book)
AtMostOneNotCancelled(d) ==
    \A m, n \in Names(d) :
        (/\ d[m].asset = d[n].asset
         /\ d[m].finance_book = d[n].finance_book
         /\ d[m].docstatus < 2
         /\ d[n].docstatus < 2) => m = n

\* the fields a schedule takes from the asset and from its policy row
PolicyFields(d) ==
    <<d.asset, d.finance_book, d.depreciation_method, d.total_number_of_depreciations,
      d.frequency_of_depreciation, d.rate_of_depreciation,
      d.expected_value_after_useful_life, d.gross_purchase_amount,
      d.opening_accumulated_depreciation, d.number_of_depreciations_booked>>

\* the journal entries the rows of a schedule refer to
EntriesOf(d) ==
    {d.depreciation_schedule[i].journal_entry : i \in 1..Len(d.depreciation_schedule)}
        \ {NoJE}

\* C1: in every state reached by draft creation, draft update, submit, cancel
\* and regeneration, each (asset, finance book) pair, the unset finance book
\* included, has at most one schedule with docstatus < 2.
C1_OneScheduleNotCancelledPerPair == AtMostOneNotCancelled(docs)

\* C1 witness: a creation refused as a duplicate after a schedule of the asset
\* had been cancelled and replaced.
C1_DuplicateRefusedAfterReplacement ==
    /\ last.op = "make_draft_asset_depr_schedule"
    /\ last.err = "duplicate"
    /\ \E n \in Names(docs) : docs[n].status = "Cancelled"
    /\ \E n \in Names(docs) : docs[n].status = "Active"

\* C2: a regeneration that returns leaves, for every finance book of the
\* asset, the schedule that was Active Cancelled and exactly one schedule
\* Active, a new one with the fields of the old; it leaves no new Draft.
C2_RegenerationReplacesEveryActive ==
    [][(last'.op = Regeneration /\ last'.err = "") =>
        /\ \A i \in 1..Len(asset.finance_books) :
              LET fb  == asset.finance_books[i].finance_book
                  old == get_asset_depr_schedule_name(docs, asset.name, "Active", fb)
                  now == {n \in Names(docs') : /\ docs'[n].asset = asset.name
                                               /\ docs'[n].finance_book = fb
                                               /\ docs'[n].status = "Active"}
              IN  /\ old # 0
                  /\ docs'[old].status = "Cancelled"
                  /\ Cardinality(now) = 1
                  /\ \A n \in now : /\ n > Len(docs)
                                    /\ PolicyFields(docs'[n]) = PolicyFields(docs[old])
        /\ \A n \in Names(docs') :
              docs'[n].status = "Draft" => (n \in Names(docs) /\ docs[n].status = "Draft")
      ]_vars

\* C2 witness: a regeneration has returned for an asset with two finance
\* books, one of whose schedules had a posted row.
C2_RegeneratedBothFinanceBooks ==
    /\ last.op = Regeneration
    /\ last.err = ""
    /\ Len(docs) >= 4
    /\ \E n \in Names(docs) : docs[n].status = "Cancelled" /\ EntriesOf(docs[n]) # {}

\* C3: a regeneration that raises has changed the status of no schedule and
\* has stored no new schedule.
C3_FailedRegenerationChangesNothing ==
    [][(last'.op = Regeneration /\ last'.err # "") => docs' = docs]_vars

\* C4: the status of a stored schedule stays, or moves from Draft to Active,
\* or from Active to Cancelled; no schedule is removed.
C4_StatusOnlyMovesForward ==
    [][\A n \in Names(docs) :
          /\ n \in Names(docs')
          /\ \/ docs'[n].status = docs[n].status
             \/ docs[n].status = "Draft" /\ docs'[n].status = "Active"
             \/ docs[n].status = "Active" /\ docs'[n].status = "Cancelled"
      ]_vars

\* C4 witness: a draft has just been recomputed in place and is still a Draft,
\* while another schedule has gone through Active to Cancelled.
C4_DraftRecomputedBesideCancelled ==
    /\ last.op = "update_draft_asset_depr_schedules"
    /\ last.err = ""
    /\ \E n \in Names(docs) : docs[n].status = "Draft"
    /\ \E n \in Names(docs) : docs[n].status = "Cancelled"

\* C6: when make_draft_asset_depr_schedule raises the duplicate-schedule
\* error, no schedule and no finance-book policy row differs in the store.
C6_DuplicateErrorWritesNothing ==
    [][(last'.op = "make_draft_asset_depr_schedule" /\ last'.err = "duplicate") =>
          (docs' = docs /\ fbstore' = fbstore)]_vars

\* C7: no operation of the engine changes the rows or the policy fields of a
\* schedule that is Active; its only change is to become Cancelled.
C7_ActiveScheduleIsFrozen ==
    [][last'.op # "post depreciation" =>
          \A n \in Names(docs) :
              docs[n].status = "Active" =>
                  \/ docs'[n] = docs[n]
                  \/ docs'[n] = [docs[n] EXCEPT !.status = "Cancelled", !.docstatus = 2]
      ]_vars

\* C7 witness: the drafts of the asset have been recomputed while another
\* schedule of the asset, with a posted row, was Active.
C7_DraftsUpdatedBesideActive ==
    /\ last.op = "update_draft_asset_depr_schedules"
    /\ last.err = ""
    /\ \E n \in Names(docs) : docs[n].status = "Draft"
    /\ \E n \in Names(docs) : docs[n].status = "Active" /\ EntriesOf(docs[n]) # {}

\* C8 as stated: whenever an Active schedule becomes Cancelled, none of the
\* journal entries its rows refer to is still posted.
C8_EveryCancelCancelsEntries ==
    [][\A n \in Names(docs) :
          (docs[n].status = "Active" /\ docs'[n].status = "Cancelled") =>
              \A je \in EntriesOf(docs[n]) : journal'[je] # "posted"
      ]_vars

\* C8 amended: when cancel_asset_depr_schedules cancels an Active schedule,
\* none of the journal entries its rows refer to is still posted; a
\* regeneration cancels the schedule and leaves every journal entry as it was.
C8_CancelCancelsEntriesRegenerationKeepsThem ==
    [][/\ last'.op = "cancel_asset_depr_schedules" =>
              \A n \in Names(docs) :
                  (docs[n].status = "Active" /\ docs'[n].status = "Cancelled") =>
                      \A je \in EntriesOf(docs[n]) : journal'[je] # "posted"
       /\ last'.op = Regeneration => journal' = journal
      ]_vars

\* C8 witness: cancel_asset_depr_schedules has cancelled a schedule with a
\* posted row, and the entry is cancelled.
C8_CancelledScheduleWithCancelledEntry ==
    /\ last.op = "cancel_asset_depr_schedules"
    /\ \E n \in Names(docs) :
          /\ docs[n].status = "Cancelled"
          /\ \E je \in EntriesOf(docs[n]) : journal[je] = "cancelled"

\* C5: when the two regenerations run one after the other, each pair keeps at
\* most one schedule that is not cancelled; when their statements interleave,
\* a state with two such schedules for one pair is reached
\* (C5_InterleavedCallsLeaveTwo).
C5_SerializedCallsKeepOne == serialized => AtMostOneNotCancelled(docs)

\* C5 witness: without serialization both callers have stored their new
\* schedule for the same pair, and both schedules are Active.
C5_InterleavedCallsLeaveTwo ==
    /\ ~serialized
    /\ \E m, n \in Names(docs) :
          /\ m # n
          /\ docs[m].asset = docs[n].asset
          /\ docs[m].finance_book = docs[n].finance_book
          /\ docs[m].status = "Active"
          /\ docs[n].status = "Active"
    /\ \A p \in Procs : calls[p].pc \in {"read", "done", "failed"} /\ calls[p].i >= 1

\* two amounts equal up to the rounding to the field precision
Near(a, b) == a - b < Unit /\ b - a < Unit

\* C9: after a regeneration every row that bore a journal entry before it is
\* still at its position, with the same schedule date and depreciation amount.
C9_RegenerationKeepsBookedRows ==
    (gen.step = "regenerated" /\ gen.ok) =>
        \A i \in 1..Len(gen.before) :
            gen.before[i].journal_entry # NoJE =>
                /\ i <= Len(gen.self.depreciation_schedule)
                /\ gen.self.depreciation_schedule[i].schedule_date
                     = gen.before[i].schedule_date
                /\ gen.self.depreciation_schedule[i].depreciation_amount
                     = gen.before[i].depreciation_amount

\* C10: after set_accumulated_depreciation, in draft generation and in
\* regeneration, the accumulated amount of the first row is the opening
\* accumulated depreciation plus its amount and that of every other row is
\* the accumulated amount of the row before plus its amount.
C10_AccumulatedIsRunningTotal ==
    (gen.step \in {"generated", "regenerated"} /\ gen.ok) =>
        LET rows == gen.self.depreciation_schedule
        IN  \A i \in 1..Len(rows) :
                Near(rows[i].accumulated_depreciation_amount,
                     (IF i = 1 THEN gen.self.opening_accumulated_depreciation
                      ELSE rows[i - 1].accumulated_depreciation_amount)
                       + rows[i].depreciation_amount)

\* ------------------------------------- properties of the generated rows
RECURSIVE SumAmounts(_)
\* the sum of the depreciation amounts of rows
SumAmounts(rows) ==
    IF rows = << >> THEN 0
    ELSE Head(rows).depreciation_amount + SumAmounts(Tail(rows))

Abs(x) == IF x < 0 THEN 0 - x ELSE x

\* lines 214-220: the number of periods of the schedule of self
final_number_of_depreciations(self, asset_doc, row) ==
    (row.total_number_of_depreciations - self.number_of_depreciations_booked)
      + (IF check_is_pro_rata(asset_doc, row, FALSE) THEN 1 ELSE 0)

FourMethods ==
    {"Straight Line", "Manual", "Written Down Value", "Double Declining Balance"}

\* gen holds a schedule as the first draft generation left it, for an asset
\* that has an available-for-use date
FirstDraft ==
    /\ gen.phase = "draft"
    /\ gen.step = "generated"
    /\ gen.ok
    /\ gen.asset_doc.available_for_use_date # NoDate

\* every period of the schedule of gen has its row: no period ended the
\* schedule early
EveryPeriodHasItsRow ==
    Len(gen.self.depreciation_schedule)
        = final_number_of_depreciations(gen.self, gen.asset_doc, gen.row)

\* C11: a schedule generated and reconciled under one of the four methods,
\* with no disposal date, no return date and no period that ended it early,
\* has row amounts that sum to gross purchase amount minus opening accumulated
\* depreciation minus expected value after useful life, within one unit of the
\* currency precision.
C11_AmountsSumToDepreciableValue ==
    (/\ FirstDraft
     /\ gen.row.depreciation_method \in FourMethods
     /\ EveryPeriodHasItsRow)
        => Abs(SumAmounts(gen.self.depreciation_schedule)
                 - (gen.asset_doc.gross_purchase_amount
                      - gen.asset_doc.opening_accumulated_depreciation
                      - gen.row.expected_value_after_useful_life)) <= Unit

\* C12: in every schedule the generator has made, for every expected value
\* after useful life, zero included, the value the generation started from
\* minus the sum of the amounts of the generated rows is not below the
\* expected value after useful life, up to the rounding of one step of the
\* currency precision for each row.
C12_NeverDepreciatedBelowResidual ==
    (/\ gen.phase = "made"
     /\ gen.ok
     /\ gen.row.depreciation_method \in FourMethods
     /\ gen.row.value_after_depreciation >= gen.row.expected_value_after_useful_life)
        => gen.row.value_after_depreciation
             - SumAmounts(gen.self.depreciation_schedule)
               >= gen.row.expected_value_after_useful_life
                    - Unit * Len(gen.self.depreciation_schedule)

\* ------------------------------------------- regeneration on disposal
\* the leading rows that bear a journal entry: the rows a regeneration retains
Retained(rows) == SubSeq(rows, 1, LeadingBooked(rows))

\* gen holds a schedule as a regeneration with a disposal date left it, for an
\* asset that has an available-for-use date
RegeneratedOnDisposal ==
    /\ gen.step = "regenerated"
    /\ gen.ok
    /\ gen.args.date_of_disposal # NoDate
    /\ gen.asset_doc.available_for_use_date # NoDate

\* the date the days to the disposal date are counted from
DisposalFromDate ==
    IF Retained(gen.before) # << >>
    THEN gen.before[LeadingBooked(gen.before)].schedule_date
    ELSE add_months(gen.asset_doc.available_for_use_date,
                    gen.asset_doc.number_of_depreciations_booked
                      * gen.row.frequency_of_depreciation)

\* the index of the first period the regeneration makes
DisposalStart == clear_depr_schedule(gen.before).start

\* the amount of that period before it is pro-rated
DisposalPeriodAmount ==
    get_depreciation_amount(gen.asset_doc, gen.row.value_after_depreciation, gen.row,
        DisposalStart,
        IF DisposalStart > 0 THEN gen.before[DisposalStart].depreciation_amount ELSE 0,
        /\ IsWdvOrDd(gen.row.depreciation_method)
        /\ gen.row.frequency_of_depreciation # 12
        /\ check_is_pro_rata(gen.asset_doc, gen.row, TRUE),
        final_number_of_depreciations(gen.self, gen.asset_doc, gen.row)
          - DisposalStart).v

\* the period amount times the days to the disposal date, divided by the
\* length of the period that ends at the disposal date
DisposalAmount ==
    Div(DisposalPeriodAmount
          * date_diff(gen.args.date_of_disposal, DisposalFromDate),
        get_total_days(gen.args.date_of_disposal, gen.row.frequency_of_depreciation))

\* the rows of the schedule are the retained rows followed by one row at the
\* disposal date with the pro-rated amount
RetainedThenDisposalRow ==
    LET rows == gen.self.depreciation_schedule
        kept == Retained(gen.before)
    IN  /\ Len(rows) = Len(kept) + 1
        /\ \A i \in 1..Len(kept) :
              /\ rows[i].schedule_date = kept[i].schedule_date
              /\ rows[i].journal_entry = kept[i].journal_entry
        /\ rows[Len(rows)].schedule_date = gen.args.date_of_disposal
        /\ rows[Len(rows)].journal_entry = NoJE
        /\ rows[Len(rows)].depreciation_amount = Flt(DisposalAmount)

C14_DraftGenerationIsIdempotent ==
    gen.step = "generated again"
        => /\ gen.self.depreciation_schedule = gen.before
           \* the second call raises only at line 124, on a Manual draft without rows
           /\ ~gen.ok => (gen.self.depreciation_method = "Manual" /\ gen.before = <<>>)

\* a declining-balance draft with a partial first period was generated twice
C14_GeneratedTwiceWithProRata ==
    /\ gen.step = "generated again"
    /\ gen.row.depreciation_method = "Double Declining Balance"
    /\ check_is_pro_rata(gen.asset_doc, gen.row, FALSE)
    /\ Len(gen.before) > 2
    /\ gen.self.depreciation_schedule = gen.before

\* ------------------------------------------------ straight line, first time
\* gen holds a Straight Line schedule as its first generation left it: no
\* pro-rata, no period booked, no opening accumulated depreciation, daily
\* pro-rata off
StraightLineFirstTime ==
    /\ FirstDraft
    /\ gen.row.depreciation_method = "Straight Line"
    /\ ~check_is_pro_rata(gen.asset_doc, gen.row, FALSE)
    /\ gen.asset_doc.number_of_depreciations_booked = 0
    /\ gen.asset_doc.opening_accumulated_depreciation = 0
    /\ ~gen.row.daily_prorata_based

\* (gross purchase amount - expected residual) / total_number_of_depreciations,
\* at the precision of the amount field
StraightLineAmount ==
    Flt(Div(gen.asset_doc.gross_purchase_amount - gen.row.expected_value_after_useful_life,
            gen.row.total_number_of_depreciations))

\* C15 as stated: such a schedule has total_number_of_depreciations rows, every
\* row amount is (gross - residual) / total_number_of_depreciations at the
\* field precision, and the last accumulated amount is gross - residual.
C15_StraightLineRowsAreEqual ==
    StraightLineFirstTime =>
        LET rows == gen.self.depreciation_schedule
        IN  /\ Len(rows) = gen.row.total_number_of_depreciations
            /\ \A i \in 1..Len(rows) : rows[i].depreciation_amount = StraightLineAmount
            /\ rows[Len(rows)].accumulated_depreciation_amount
                  = gen.asset_doc.gross_purchase_amount - gen.row.expected_value_after_useful_life

\* C15: such a schedule has total_number_of_depreciations rows, every row but
\* the last bears (gross - residual) / total_number_of_depreciations rounded
\* to the field precision, the last row bears what the rows before it leave
\* of gross - residual, and the last accumulated amount is gross - residual.
C15_StraightLineLastRowTakesRemainder ==
    StraightLineFirstTime =>
        LET rows == gen.self.depreciation_schedule
            n == Len(rows)
            depreciable == gen.asset_doc.gross_purchase_amount - gen.row.expected_value_after_useful_life
        IN  /\ n = gen.row.total_number_of_depreciations
            /\ \A i \in 1..(n - 1) : rows[i].depreciation_amount = StraightLineAmount
            /\ rows[n].depreciation_amount = depreciable - (n - 1) * StraightLineAmount
            /\ rows[n].accumulated_depreciation_amount = depreciable

\* twelve monthly rows of 1000 each, accumulated to 12000
C15_TwelveRowsOfOneThousand ==
    /\ StraightLineFirstTime
    /\ gen.asset_doc.gross_purchase_amount = 12000 * Unit
    /\ Len(gen.self.depreciation_schedule) = 12
    /\ \A i \in 1..12 : gen.self.depreciation_schedule[i].depreciation_amount = 1000 * Unit
    /\ gen.self.depreciation_schedule[12].accumulated_depreciation_amount = 12000 * Unit

\* ------------------------------------------------ declining balance, yearly
\* gen holds a Written Down Value or Double Declining Balance schedule of
\* yearly periods without pro-rata, as its first generation left it
DecliningYearlyNoProRata ==
    /\ FirstDraft
    /\ IsWdvOrDd(gen.row.depreciation_method)
    /\ gen.row.frequency_of_depreciation = 12
    /\ ~check_is_pro_rata(gen.asset_doc, gen.row, FALSE)

\* the value that remains before row i (1-based) of rows
ValueBeforeRow(rows, i) ==
    (gen.asset_doc.gross_purchase_amount - gen.asset_doc.opening_accumulated_depreciation)
        - SumAmounts(SubSeq(rows, 1, i - 1))

\* rate percent of the value that remains before row i, at the field precision
RateOfRemainingValue(rows, i) ==
    Flt(Div(ValueBeforeRow(rows, i) * gen.row.rate_of_depreciation, 100))

\* C16 as stated: every row of such a schedule bears rate percent of the value
\* that remains after the rows before it.
C16_EveryRowIsRateOfRemainingValue ==
    DecliningYearlyNoProRata =>
        LET rows == gen.self.depreciation_schedule
        IN  \A i \in 1..Len(rows) : rows[i].depreciation_amount = RateOfRemainingValue(rows, i)

\* C16: every row of such a schedule bears rate percent of the value that
\* remains after the rows before it, but for the last row of a schedule with
\* an expected residual: that row bears all that remains above the residual.
C16_LastRowDepreciatesToResidual ==
    DecliningYearlyNoProRata =>
        LET rows == gen.self.depreciation_schedule
            n == Len(rows)
            residual == gen.row.expected_value_after_useful_life
        IN  /\ n > 0
            /\ \A i \in 1..(n - 1) : rows[i].depreciation_amount = RateOfRemainingValue(rows, i)
            /\ rows[n].depreciation_amount
                  = IF residual # 0 THEN ValueBeforeRow(rows, n) - residual
                    ELSE RateOfRemainingValue(rows, n)

\* 12000 at 20 percent over 5 yearly periods: 2400, 1920, 1536, ...
C16_TwentyPercentOfTwelveThousand ==
    /\ DecliningYearlyNoProRata
    /\ gen.row.depreciation_method = "Written Down Value"
    /\ gen.row.rate_of_depreciation = 20
    /\ Len(gen.self.depreciation_schedule) = 5
    /\ gen.self.depreciation_schedule[1].depreciation_amount = 2400 * Unit
    /\ gen.self.depreciation_schedule[2].depreciation_amount = 1920 * Unit
    /\ gen.self.depreciation_schedule[3].depreciation_amount = 1536 * Unit

\* ------------------------------------------------ partial first period
\* gen holds a first draft of one of the four methods whose available-for-use
\* date lies less than one period before the start date, with no period
\* booked and no opening accumulated depreciation
PartialFirstPeriod ==
    /\ FirstDraft
    /\ gen.row.depreciation_method \in FourMethods
    /\ gen.asset_doc.number_of_depreciations_booked = 0
    /\ gen.asset_doc.opening_accumulated_depreciation = 0
    /\ check_is_pro_rata(gen.asset_doc, gen.row, FALSE)

\* the days from the available-for-use date to the start date, both counted
DaysInUseAtStart ==
    date_diff(gen.row.depreciation_start_date, gen.asset_doc.available_for_use_date) + 1

\* the amount of one whole period of months months, before any rounding
NominalAmount(months) ==
    IF IsStraightLineOrManual(gen.row.depreciation_method)
    THEN Div(gen.asset_doc.gross_purchase_amount - gen.row.expected_value_after_useful_life,
             gen.row.total_number_of_depreciations)
    ELSE Div(gen.asset_doc.gross_purchase_amount * months * gen.row.rate_of_depreciation, 1200)

\* the amount of months months, for the days in use of the months that end
\* at the start date
ProRataOfMonths(months) ==
    Flt(Div(NominalAmount(months) * DaysInUseAtStart,
            get_total_days(gen.row.depreciation_start_date, months)))

\* C17 as stated: row 0 is dated at the start date and bears the amount of one
\* period times the days in use, divided by the days of the period that ends
\* at the start date.
C17_FirstRowIsProRataOfItsPeriod ==
    PartialFirstPeriod =>
        LET first == gen.self.depreciation_schedule[1]
        IN  /\ first.schedule_date = gen.row.depreciation_start_date
            /\ first.depreciation_amount = ProRataOfMonths(gen.row.frequency_of_depreciation)

\* C17: row 0 is dated at the start date; under Straight Line and Manual, and
\* under the declining methods with yearly periods, it bears the amount of one
\* period for the days in use of the period that ends at the start date; under
\* the declining methods with shorter periods it bears the amount of one year
\* for the days in use of the year that ends at the start date.
C17_FirstRowOfDecliningIsProRataOfItsYear ==
    PartialFirstPeriod =>
        LET first == gen.self.depreciation_schedule[1]
        IN  /\ first.schedule_date = gen.row.depreciation_start_date
            /\ first.depreciation_amount
                  = IF IsWdvOrDd(gen.row.depreciation_method)
                    THEN ProRataOfMonths(12)
                    ELSE ProRataOfMonths(gen.row.frequency_of_depreciation)

\* 15 days of January in use: the first of the monthly rows of 4000 bears
\* 4000 * 15 / 31
C17_FifteenDaysOfJanuary ==
    /\ PartialFirstPeriod
    /\ gen.row.depreciation_method = "Straight Line"
    /\ gen.row.frequency_of_depreciation = 1
    /\ DaysInUseAtStart = 15
    /\ gen.asset_doc.gross_purchase_amount = 12000 * Unit
    /\ gen.self.depreciation_schedule[1].schedule_date = MkDate(2020, 1, 31)
    /\ gen.self.depreciation_schedule[1].depreciation_amount = 1935 * Unit
    /\ gen.self.depreciation_schedule[2].depreciation_amount = 4000 * Unit

\* ------------------------------------------------ configuration errors
\* C18: the generation of a schedule whose policy names a method that is none
\* of Straight Line, Manual, Written Down Value and Double Declining Balance
\* raises, and leaves no row.
C18_UnknownMethodAborts ==
    (gen.step = "generated" /\ gen.row.depreciation_method \notin FourMethods)
        => /\ ~gen.ok
           /\ gen.self.depreciation_schedule = <<>>

\* C19: the generation of a schedule for an asset without available-for-use
\* date raises; it does not return with an empty or unchanged list of rows
\* that is then reconciled.
C19_NoAvailableForUseDateAborts ==
    (gen.step = "generated" /\ gen.asset_doc.available_for_use_date = NoDate)
        => ~gen.ok

\* ------------------------------------------------ disposal before a booked row
\* C20: a regeneration with a disposal date earlier than the date of the last
\* retained row raises: no schedule is made of the retained rows and submitted
\* in place of the old one.
C20_DisposalBeforeLastBookedRowRaises ==
    ( /\ gen.step = "regenerated"
      /\ gen.asset_doc.available_for_use_date # NoDate
      /\ gen.args.date_of_disposal # NoDate
      /\ Retained(gen.before) # << >>
      /\ gen.args.date_of_disposal < gen.before[LeadingBooked(gen.before)].schedule_date )
        => ~gen.ok

\* ------------------------------------------------ the asset passed in
\* C21: no step changes the end date to_date of the asset it is given: after
\* draft generation, reconciliation or regeneration the asset is as it was.
C21_AssetEndDateIsNotChanged ==
    [][gen'.asset_doc.to_date = gen.asset_doc.to_date]_vars

\* ------------------------------------------------ the start of a regeneration
\* C22: clear_depr_schedule, as a regeneration applies it to the rows of the
\* old schedule, keeps the leading rows that bear a journal entry, in their
\* order, and returns as start the number of rows it kept.
C22_StartIsNumberOfRowsKept ==
    (gen.step = "regenerated" /\ gen.asset_doc.available_for_use_date # NoDate)
        => LET cleared == clear_depr_schedule(gen.before)
           IN  /\ cleared.rows = Retained(gen.before)
               /\ cleared.start = Len(cleared.rows)

\* ------------------------------------------------ the order of the rows
\* the rows are in non-decreasing order of schedule date
DatesAscend(rows) ==
    \A i \in 1..(Len(rows) - 1) : rows[i].schedule_date <= rows[i + 1].schedule_date

\* C23: after a generation or a regeneration that returned, the rows of the
\* schedule are in non-decreasing order of schedule date, the retained booked
\* rows and the rows generated after them included.
C23_RowsAreInDateOrder ==
    (gen.step \in {"generated", "generated again", "regenerated"} /\ gen.ok)
        => DatesAscend(gen.self.depreciation_schedule)

\* ------------------------------------------------ regeneration on return
\* gen holds a schedule as a regeneration with a return date and no disposal
\* date left it, the return date being later than the last retained row
RegeneratedOnReturn ==
    /\ gen.step = "regenerated"
    /\ gen.ok
    /\ gen.args.date_of_return # NoDate
    /\ gen.args.date_of_disposal = NoDate
    /\ gen.asset_doc.available_for_use_date # NoDate
    /\ gen.args.date_of_return > DisposalFromDate

\* C24: a regeneration with a return date and no disposal date leaves the
\* retained rows followed by at most one new row, dated at the return date; no
\* row of a later period is generated.
C24_ReturnTruncatesLikeDisposal ==
    RegeneratedOnReturn =>
        LET rows == gen.self.depreciation_schedule
            kept == Len(Retained(gen.before))
        IN  /\ Len(rows) <= kept + 1
            /\ Len(rows) = kept + 1 => rows[Len(rows)].schedule_date = gen.args.date_of_return

\* ------------------------------------------------ what the reconciler changes
RECURSIVE SumRounded(_)
\* the sum of the amounts of rows, each rounded to the field precision
SumRounded(rows) ==
    IF rows = << >> THEN 0
    ELSE Flt(rows[1].depreciation_amount) + SumRounded(Tail(rows))

\* gen holds rows as set_accumulated_depreciation left them, and in before
\* the rows it was given
Reconciled ==
    /\ gen.step = "reconciled"
    /\ gen.before # << >>

\* what the value of the policy row, less every row amount, leaves above the
\* expected value after useful life
LeftAboveResidual ==
    (gen.row.value_after_depreciation - SumRounded(gen.before))
        - gen.row.expected_value_after_useful_life

\* the reconciler adjusts a row: Straight Line or Manual, no disposal date and
\* no return date
AdjustsStraightLine ==
    /\ IsStraightLineOrManual(gen.self.depreciation_method)
    /\ gen.args.date_of_disposal = NoDate
    /\ gen.args.date_of_return = NoDate

\* the rows of gen bear the rounded amounts they were given, but for row k
\* when adjusted holds: that row bears LeftAboveResidual more
OnlyRowAdjusted(k, adjusted) ==
    LET rows == gen.self.depreciation_schedule
    IN  /\ Len(rows) = Len(gen.before)
        /\ \A i \in 1..Len(rows) :
              /\ rows[i].schedule_date = gen.before[i].schedule_date
              /\ rows[i].depreciation_amount
                    = Flt(gen.before[i].depreciation_amount)
                        + (IF adjusted /\ i = k THEN LeftAboveResidual ELSE 0)

\* C25 as stated: under Straight Line and Manual with no disposal and no
\* return date the row before the last absorbs what is left above the
\* residual and every other row keeps its amount; otherwise no row changes.
C25_PenultimateRowAbsorbs ==
    Reconciled => OnlyRowAdjusted(Len(gen.before) - 1, AdjustsStraightLine)

\* C25: under Straight Line and Manual with no disposal and no return date the
\* last row absorbs what is left above the residual and every other row keeps
\* its amount, rounded to the field precision; otherwise no row changes
\* beyond that rounding.
C25_LastRowAbsorbs ==
    Reconciled => OnlyRowAdjusted(Len(gen.before), AdjustsStraightLine)

\* the last row of a Straight Line schedule was raised by the reconciler
C25_LastRowRaised ==
    /\ Reconciled
    /\ AdjustsStraightLine
    /\ Len(gen.before) > 1
    /\ LeftAboveResidual > 0
    /\ gen.self.depreciation_schedule[Len(gen.before)].depreciation_amount
          > Flt(gen.before[Len(gen.before)].depreciation_amount)

\* ------------------------------------------------ the last, partial period
\* gen holds rows as make_depr_schedule left them, with pro-rata, without
\* disposal date, every period having its row
MadeWithProRata ==
    /\ gen.phase = "made"
    /\ gen.ok
    /\ gen.args.date_of_disposal = NoDate
    /\ gen.asset_doc.available_for_use_date # NoDate
    /\ gen.row.depreciation_method \in FourMethods
    /\ check_is_pro_rata(gen.asset_doc, gen.row, FALSE)
    /\ EveryPeriodHasItsRow

\* the declining methods with periods shorter than a year and a partial year
HasWdvOrDdNonYearlyProRata ==
    /\ IsWdvOrDd(gen.row.depreciation_method)
    /\ gen.row.frequency_of_depreciation # 12
    /\ check_is_pro_rata(gen.asset_doc, gen.row, TRUE)

\* the amount of the last period before it is pro-rated: get_depreciation_amount
\* at the last index, for the value the rows before it leave
UnproratedLastAmount ==
    LET rows == gen.self.depreciation_schedule
        n == Len(rows)
    IN  get_depreciation_amount(gen.asset_doc,
            gen.row.value_after_depreciation - SumRounded(SubSeq(rows, 1, n - 1)),
            gen.row, n - 1, rows[n - 1].depreciation_amount,
            HasWdvOrDdNonYearlyProRata, n).v

\* the plain pro-rata amount of the last period: its days run from the nominal
\* date of the period before it to the end date of the asset
ProRatedLastAmount ==
    LET n == Len(gen.self.depreciation_schedule)
    IN  get_pro_rata_amt(gen.row, UnproratedLastAmount,
            gen.self.depreciation_schedule[n - 1].schedule_date,
            gen.asset_doc.to_date, HasWdvOrDdNonYearlyProRata).v

\* C26 as stated: with pro-rata, no disposal date and no opening accumulated
\* depreciation, the first and the last row together bear the un-pro-rated
\* amount of the last period; with opening accumulated depreciation the last
\* row bears the plain pro-rata amount.
C26_FirstAndLastRowMakeOnePeriod ==
    MadeWithProRata =>
        LET rows == gen.self.depreciation_schedule
            n == Len(rows)
        IN  IF gen.asset_doc.opening_accumulated_depreciation = 0
            THEN rows[1].depreciation_amount + rows[n].depreciation_amount
                    = UnproratedLastAmount
            ELSE rows[n].depreciation_amount = ProRatedLastAmount

\* C26: that holds for a policy without expected value after useful life;
\* with one, the last row is raised or lowered after the adjustment, so that
\* it bears all that the rows before it leave above the expected value.
C26_LastRowThenDepreciatesToResidual ==
    MadeWithProRata =>
        LET rows == gen.self.depreciation_schedule
            n == Len(rows)
            residual == gen.row.expected_value_after_useful_life
        IN  IF residual # 0
            THEN Flt(rows[n].depreciation_amount)
                    = (gen.row.value_after_depreciation - SumRounded(SubSeq(rows, 1, n - 1)))
                        - residual
            ELSE IF gen.asset_doc.opening_accumulated_depreciation = 0
            THEN rows[1].depreciation_amount + rows[n].depreciation_amount
                    = UnproratedLastAmount
            ELSE rows[n].depreciation_amount = ProRatedLastAmount

\* a schedule of two rows that together bear the amount of its one period
C26_TwoRowsMakeOnePeriod ==
    /\ MadeWithProRata
    /\ gen.row.expected_value_after_useful_life = 0
    /\ gen.asset_doc.opening_accumulated_depreciation = 0
    /\ Len(gen.self.depreciation_schedule) = 2
    /\ gen.self.depreciation_schedule[2].depreciation_amount > 0
    /\ gen.self.depreciation_schedule[1].depreciation_amount
          + gen.self.depreciation_schedule[2].depreciation_amount = UnproratedLastAmount

\* ------------------------------------------------ periods within the year
\* gen holds rows as make_depr_schedule left them under a declining method
\* with periods shorter than a year, without disposal date, every period
\* having its row
MadeDecliningNonYearly ==
    /\ gen.phase = "made"
    /\ gen.ok
    /\ gen.args.date_of_disposal = NoDate
    /\ IsWdvOrDd(gen.row.depreciation_method)
    /\ gen.row.frequency_of_depreciation # 12
    /\ EveryPeriodHasItsRow

PeriodsInYear == 12 \div gen.row.frequency_of_depreciation

\* remaining value * f * rate / 1200 for the value that remains before row i
RecomputedAmount(rows, i) ==
    Div((gen.row.value_after_depreciation - SumRounded(SubSeq(rows, 1, i - 1)))
            * gen.row.frequency_of_depreciation * gen.row.rate_of_depreciation, 1200)

\* row i (period index i - 1) bears the amount recomputed at the indices that
\* leave remainder r in the year, and the amount of the row before it elsewhere
FollowsYear(rows, i, r) ==
    rows[i].depreciation_amount
        = IF (i - 1) % PeriodsInYear = r
          THEN RecomputedAmount(rows, i)
          ELSE rows[i - 1].depreciation_amount

\* C27 as stated: without pro-rata every row bears the amount recomputed at
\* the multiples of 12 / f or else the amount of the row before it; in the
\* pro-rata variant the rows after the first do so with the indices that leave
\* remainder 1, the extra, partial period apart.
C27_RowsOfOneYearBearOneAmount ==
    MadeDecliningNonYearly =>
        LET rows == gen.self.depreciation_schedule
            n == Len(rows)
            r == IF check_is_pro_rata(gen.asset_doc, gen.row, TRUE) THEN 1 ELSE 0
        IN  /\ \A i \in (1 + r)..(n - 1) : FollowsYear(rows, i, r)
            /\ check_is_pro_rata(gen.asset_doc, gen.row, FALSE) \/ FollowsYear(rows, n, r)

\* C27: that holds but for the last row of a policy with an expected value
\* after useful life, which is then brought to that value; in the pro-rata
\* variant the last row follows the year when it is not the extra, partial
\* period.
C27_RowsOfOneYearBearOneAmountButTheLast ==
    MadeDecliningNonYearly =>
        LET rows == gen.self.depreciation_schedule
            n == Len(rows)
            r == IF check_is_pro_rata(gen.asset_doc, gen.row, TRUE) THEN 1 ELSE 0
        IN  /\ \A i \in (1 + r)..(n - 1) : FollowsYear(rows, i, r)
            /\ IF gen.row.expected_value_after_useful_life # 0
               THEN Flt(rows[n].depreciation_amount)
                       = (gen.row.value_after_depreciation
                            - SumRounded(SubSeq(rows, 1, n - 1)))
                           - gen.row.expected_value_after_useful_life
               ELSE check_is_pro_rata(gen.asset_doc, gen.row, FALSE)
                       \/ FollowsYear(rows, n, r)

\* six quarters without pro-rata: the amount is recomputed at the fifth row
C27_SecondYearRecomputed ==
    /\ MadeDecliningNonYearly
    /\ ~check_is_pro_rata(gen.asset_doc, gen.row, TRUE)
    /\ gen.row.frequency_of_depreciation = 3
    /\ Len(gen.self.depreciation_schedule) = 6
    /\ gen.self.depreciation_schedule[4].depreciation_amount
          = gen.self.depreciation_schedule[1].depreciation_amount
    /\ gen.self.depreciation_schedule[5].depreciation_amount
          < gen.self.depreciation_schedule[4].depreciation_amount
    /\ gen.self.depreciation_schedule[5].depreciation_amount
          = RecomputedAmount(gen.self.depreciation_schedule, 5)

\* ------------------------------------------------ C28
\* a Straight Line or Manual schedule made with daily pro-rata, first-time or
\* after a decrease of the asset's value
MadeDaily ==
    /\ gen.phase = "made"
    /\ gen.ok
    /\ gen.args.date_of_disposal = NoDate
    /\ IsStraightLineOrManual(gen.row.depreciation_method)
    /\ gen.row.daily_prorata_based

\* the periods that remain
PendingPeriods ==
    gen.row.total_number_of_depreciations - gen.asset_doc.number_of_depreciations_booked

\* value minus expected residual, as the branch taken reads it
DailyRemaining ==
    IF "decrease_in_asset_value_due_to_value_adjustment" \in gen.asset_doc.flags
    THEN gen.row.value_after_depreciation - gen.row.expected_value_after_useful_life
    ELSE gen.asset_doc.gross_purchase_amount
            - gen.asset_doc.opening_accumulated_depreciation
            - gen.row.expected_value_after_useful_life

\* the amounts get_straight_line_or_manual_depr_amount returns for the period
\* indices below n, added up
RECURSIVE DailySum(_)
DailySum(n) ==
    IF n = 0 THEN 0
    ELSE DailySum(n - 1)
            + get_straight_line_or_manual_depr_amount(gen.asset_doc, gen.row, n - 1,
                                                      PendingPeriods).v

\* the days of the period indices below n, added up
RECURSIVE DaysSum(_)
DaysSum(n) ==
    IF n = 0 THEN 0 ELSE DaysSum(n - 1) + DaysOfPeriod(gen.row, n - 1)

\* C28: in daily pro-rata mode the amounts returned over all remaining period
\* indices sum to value minus expected residual (up to one fine unit lost in
\* each division).
C28_DailyAmountsSumToRemaining ==
    MadeDaily =>
        /\ DailySum(PendingPeriods) <= DailyRemaining
        /\ DailySum(PendingPeriods) > DailyRemaining - PendingPeriods

\* the divisor counts one day less than the periods hold, so the amounts sum
\* to remaining * (days + 1) / days
DailyAmountsExceedByOneDay ==
    MadeDaily =>
        /\ DailySum(PendingPeriods) * (DaysSum(PendingPeriods) - 1)
              <= DailyRemaining * DaysSum(PendingPeriods)
        /\ (DailySum(PendingPeriods) + PendingPeriods) * (DaysSum(PendingPeriods) - 1)
              > DailyRemaining * DaysSum(PendingPeriods)

\* ------------------------------------------------ C29
\* C29: a regeneration that cancels an Active schedule leaves every journal
\* entry its rows refer to as it was, and every booked row of the Active
\* schedule that replaces it refers to a journal entry that is posted.
C29_RegenerationCancelsNoBooking ==
    [][(last'.op = Regeneration) =>
          \A n \in Names(docs) :
              (docs[n].status = "Active" /\ docs'[n].status = "Cancelled") =>
                  /\ \A je \in EntriesOf(docs[n]) :
                        journal[je] = "posted" /\ journal'[je] = "posted"
                  /\ \A m \in Names(docs') :
                        (/\ docs'[m].status = "Active"
                         /\ docs'[m].asset = docs[n].asset
                         /\ docs'[m].finance_book = docs[n].finance_book) =>
                            /\ EntriesOf(docs[n]) \subseteq EntriesOf(docs'[m])
                            /\ \A je \in EntriesOf(docs'[m]) : journal'[je] = "posted"
      ]_vars

\* C29 witness: a regeneration has cancelled a schedule with a booked row; the
\* row is in the Active schedule that replaces it and its entry is posted.
C29_BookedRowCarriedOver ==
    /\ last.op = Regeneration
    /\ last.err = ""
    /\ \E n, m \in Names(docs) :
          /\ docs[n].status = "Cancelled"
          /\ docs[m].status = "Active"
          /\ docs[m].finance_book = docs[n].finance_book
          /\ \E je \in EntriesOf(docs[n]) :
                je \in EntriesOf(docs[m]) /\ journal[je] = "posted"

\* ------------------------------------------------ C30
\* the values the stored schedule holds equal those of the asset and of the
\* policy row it is prepared from, the start date being compared with the date
\* of the first row
HeldValuesEqual(stored, asset_doc, row) ==
    /\ asset_doc.gross_purchase_amount = stored.gross_purchase_amount
    /\ asset_doc.opening_accumulated_depreciation = stored.opening_accumulated_depreciation
    /\ asset_doc.number_of_depreciations_booked = stored.number_of_depreciations_booked
    /\ row.total_number_of_depreciations = stored.total_number_of_depreciations
    /\ row.frequency_of_depreciation = stored.frequency_of_depreciation
    /\ row.depreciation_start_date = stored.depreciation_schedule[1].schedule_date
    /\ row.expected_value_after_useful_life = stored.expected_value_after_useful_life

\* the rows a new document gets from the asset and the policy row
RebuiltRows(asset_doc, row) ==
    prepare_draft_asset_depr_schedule_data(new_doc, asset_doc, row, NoDate, NoDate,
                                           TRUE).self.depreciation_schedule

\* C30: a stored Manual draft with rows keeps its rows when it is prepared
\* again with the held values all equal, and is rebuilt when one of them
\* differs; a stored draft of any other method is rebuilt on every call.
C30_ManualDraftKeptUnlessChanged ==
    [][gen'.phase = "edited" =>
          LET stored == gen.self
              asset_doc == EditedAsset(gen.asset_doc, gen.row, gen'.step)
              row == EditedRow(gen.row, gen'.step)
          IN  IF stored.depreciation_method = "Manual"
              THEN stored.depreciation_schedule # << >> =>
                      IF HeldValuesEqual(stored, asset_doc, row)
                      THEN /\ gen'.ok
                           /\ gen'.self.depreciation_schedule = stored.depreciation_schedule
                      ELSE gen'.self.depreciation_schedule = RebuiltRows(asset_doc, row)
              ELSE gen'.self.depreciation_schedule = RebuiltRows(asset_doc, row)
      ]_vars

\* C30 witness: a Manual draft with rows was prepared again after the rate of
\* its policy was edited, and its rows are those it had
C30_ManualDraftKept ==
    /\ gen.phase = "edited"
    /\ gen.step = "rate_of_depreciation"
    /\ gen.ok
    /\ gen.self.depreciation_method = "Manual"
    /\ Len(gen.before) > 1
    /\ gen.self.depreciation_schedule = gen.before

\* a Manual draft with rows was prepared again after the number of periods
\* was edited, and has one row more
ManualDraftRebuilt ==
    /\ gen.phase = "edited"
    /\ gen.step = "total_number_of_depreciations"
    /\ gen.ok
    /\ gen.self.depreciation_method = "Manual"
    /\ gen.before # << >>
    /\ Len(gen.self.depreciation_schedule) = Len(gen.before) + 1

=============================================================================
